---- MODULE Spec2Model ----
(***************************************************************************)
(* Model of the session protocol engine of src/src/session.cpp: the        *)
(* Session state machine, its HTTP request router, the event sequencer,    *)
(* the iframe queue, the download ledger and the inactivity timers.        *)
(*                                                                         *)
(* The fields of one Session are the variables.  The member functions are  *)
(* operators from a session record to a session record, composed the way   *)
(* the code calls them; an action applies one operation to the current     *)
(* record.  Collaborators (browser handle, image compressor, widget tree,  *)
(* HTTP response, owning event handler) are observed through the calls the *)
(* session makes on them.  The static set of session ids in use and the   *)
(* other sessions of the process are kept by their ids.                    *)
(***************************************************************************)
EXTENDS Integers, Sequences, FiniteSets, TLC

VARIABLES
    pc,                      \* "constructed": constructor ran, afterConstruct_ pending; "running"
    state_,                  \* Pending / Open / Closing / Closed
    isPopup_,
    browser_,                \* TRUE iff the CefBrowser pointer is non-null
    closeOnOpen_,
    curMainIdx_,
    curImgIdx_,
    curEventIdx_,
    curDownloadIdx_,
    preMainVisited_,
    prePrevVisited_,
    prevNextClicked_,
    iframeQueue_,            \* sequence of queued producers
    downloads_,              \* set of <<download index, file, ms elapsed on its expiry timer>>
    widthSignal_,
    heightSignal_,
    rootViewport_,           \* <<width, height>> of the logical viewport
    paddedRootViewport_,     \* <<width, height>> of the padded buffer
    inactivityTimeoutLong_,  \* TRUE iff the timer is armed
    inactivityTimeoutShort_,
    sinceNavigate,           \* ms elapsed since lastNavigateOperationTime_ (saturating)
    sinceSecurity,           \* ms elapsed since lastSecurityStatusUpdateTime_ (saturating)
    response,                \* what the last handled HTTP request was answered
    closeBrowserCalls,       \* number of CloseBrowser(true) calls made on the handle
    navCmd,                  \* GoBack/Reload/GoForward issued by the last operation
    dispatched,              \* event sequence numbers given to processEvent in this generation
    imageWaiting,            \* TRUE iff the compressor holds an unanswered image request
    frame,                   \* <<width, height>> last given to the compressor
    sessionClosedPosts,      \* number of onSessionClosed notifications posted
    stateTrail,              \* values assigned to state_ by the last operation, in order
    eventTrail,              \* <<sequence number, applied?>> per token of the last batch
    effects,                 \* what the last operation called on its collaborators, logged or suppressed
    mainServed,              \* TRUE iff the main page (not the bootstrap page) has been served
    requireFailed,           \* TRUE iff a REQUIRE of the session has failed
    usedSessionIDs,          \* the static set of session ids in use
    liveSessions,            \* per id, the number of Session objects alive with that id
    eraseTasks,              \* per id, the number of posted tasks that will release it
    createdSessions,         \* the sessions the last operation created
    announcedSessions        \* the ids the last operation announced to the event handler

vars == <<pc, state_, isPopup_, browser_, closeOnOpen_, curMainIdx_, curImgIdx_,
          curEventIdx_, curDownloadIdx_, preMainVisited_, prePrevVisited_,
          prevNextClicked_, iframeQueue_, downloads_, widthSignal_, heightSignal_,
          rootViewport_, paddedRootViewport_, inactivityTimeoutLong_,
          inactivityTimeoutShort_, sinceNavigate, sinceSecurity, response,
          closeBrowserCalls, navCmd, dispatched, imageWaiting, frame,
          sessionClosedPosts, stateTrail, eventTrail, effects, mainServed,
          requireFailed, usedSessionIDs, liveSessions, eraseTasks,
          createdSessions, announcedSessions>>

----------------------------------------------------------------------------
(* Bounds of the model *)

MaxMainIdx == 2
MaxImgIdx == 2
MaxEventIdx == 3
MaxBatch == 2
MaxDownloads == 1
MaxQueue == 2
MaxSessionIDs == 3
MaxDraws == 2
MaxIssued == 3

----------------------------------------------------------------------------
(* Program constants *)

Pending == "Pending"
Open == "Open"
Closing == "Closing"
Closed == "Closed"

WidthSignalNoNewIframe == 0
WidthSignalNewIframe == 1
WidthSignalModulus == 4
HeightSignalModulus == 8

NormalCursor == 0
HandCursor == 1
TextCursor == 2
CursorTypeCount == 3

MinViewportSize == 64
MaxViewportSize == 4096
InitialViewportWidth == 800
InitialViewportHeight == 600

NavigateDebounceMs == 200
DownloadTTL == 10000
SecurityStatusRefreshMs == 1000

(* The values sessionIDRNG draws, cut down to a few *)
SessionIDs == 1..MaxSessionIDs

Min(a, b) == IF a < b THEN a ELSE b
Max(a, b) == IF a > b THEN a ELSE b

----------------------------------------------------------------------------
(* The session as a record *)

Cur ==
    [ pc |-> pc, state_ |-> state_, isPopup_ |-> isPopup_, browser_ |-> browser_,
      closeOnOpen_ |-> closeOnOpen_, curMainIdx_ |-> curMainIdx_,
      curImgIdx_ |-> curImgIdx_, curEventIdx_ |-> curEventIdx_,
      curDownloadIdx_ |-> curDownloadIdx_, preMainVisited_ |-> preMainVisited_,
      prePrevVisited_ |-> prePrevVisited_, prevNextClicked_ |-> prevNextClicked_,
      iframeQueue_ |-> iframeQueue_, downloads_ |-> downloads_,
      widthSignal_ |-> widthSignal_, heightSignal_ |-> heightSignal_,
      rootViewport_ |-> rootViewport_, paddedRootViewport_ |-> paddedRootViewport_,
      inactivityTimeoutLong_ |-> inactivityTimeoutLong_,
      inactivityTimeoutShort_ |-> inactivityTimeoutShort_,
      sinceNavigate |-> sinceNavigate, sinceSecurity |-> sinceSecurity,
      response |-> response, closeBrowserCalls |-> closeBrowserCalls,
      navCmd |-> navCmd, dispatched |-> dispatched, imageWaiting |-> imageWaiting,
      frame |-> frame, sessionClosedPosts |-> sessionClosedPosts,
      stateTrail |-> stateTrail, eventTrail |-> eventTrail,
      effects |-> effects, mainServed |-> mainServed,
      requireFailed |-> requireFailed ]

(* The sessions of the process as a record *)
Process ==
    [ usedSessionIDs |-> usedSessionIDs, liveSessions |-> liveSessions,
      eraseTasks |-> eraseTasks, createdSessions |-> createdSessions,
      announcedSessions |-> announcedSessions ]

(* No session of the process has been created yet *)
NoSessions ==
    [ usedSessionIDs |-> {}, liveSessions |-> [id \in SessionIDs |-> 0],
      eraseTasks |-> [id \in SessionIDs |-> 0],
      createdSessions |-> <<>>, announcedSessions |-> <<>> ]

(* An operation on the sessions of the process starts with nothing
   created and nothing announced *)
BeginProcess(p) == [p EXCEPT !.createdSessions = <<>>, !.announcedSessions = <<>>]

ProcessBecomes(p) ==
    /\ usedSessionIDs' = p.usedSessionIDs
    /\ liveSessions' = p.liveSessions
    /\ eraseTasks' = p.eraseTasks
    /\ createdSessions' = p.createdSessions
    /\ announcedSessions' = p.announcedSessions

SessionBecomes(s) ==
    /\ pc' = s.pc
    /\ state_' = s.state_
    /\ isPopup_' = s.isPopup_
    /\ browser_' = s.browser_
    /\ closeOnOpen_' = s.closeOnOpen_
    /\ curMainIdx_' = s.curMainIdx_
    /\ curImgIdx_' = s.curImgIdx_
    /\ curEventIdx_' = s.curEventIdx_
    /\ curDownloadIdx_' = s.curDownloadIdx_
    /\ preMainVisited_' = s.preMainVisited_
    /\ prePrevVisited_' = s.prePrevVisited_
    /\ prevNextClicked_' = s.prevNextClicked_
    /\ iframeQueue_' = s.iframeQueue_
    /\ downloads_' = s.downloads_
    /\ widthSignal_' = s.widthSignal_
    /\ heightSignal_' = s.heightSignal_
    /\ rootViewport_' = s.rootViewport_
    /\ paddedRootViewport_' = s.paddedRootViewport_
    /\ inactivityTimeoutLong_' = s.inactivityTimeoutLong_
    /\ inactivityTimeoutShort_' = s.inactivityTimeoutShort_
    /\ sinceNavigate' = s.sinceNavigate
    /\ sinceSecurity' = s.sinceSecurity
    /\ response' = s.response
    /\ closeBrowserCalls' = s.closeBrowserCalls
    /\ navCmd' = s.navCmd
    /\ dispatched' = s.dispatched
    /\ imageWaiting' = s.imageWaiting
    /\ frame' = s.frame
    /\ sessionClosedPosts' = s.sessionClosedPosts
    /\ stateTrail' = s.stateTrail
    /\ eventTrail' = s.eventTrail
    /\ effects' = s.effects
    /\ mainServed' = s.mainServed
    /\ requireFailed' = s.requireFailed

(* An operation of the session alone creates and announces no session *)
Become(s) ==
    /\ SessionBecomes(s)
    /\ UNCHANGED <<usedSessionIDs, liveSessions, eraseTasks>>
    /\ createdSessions' = <<>>
    /\ announcedSessions' = <<>>

(* The variables hold the record s *)
StartsAs(s) ==
    /\ pc = s.pc
    /\ state_ = s.state_
    /\ isPopup_ = s.isPopup_
    /\ browser_ = s.browser_
    /\ closeOnOpen_ = s.closeOnOpen_
    /\ curMainIdx_ = s.curMainIdx_
    /\ curImgIdx_ = s.curImgIdx_
    /\ curEventIdx_ = s.curEventIdx_
    /\ curDownloadIdx_ = s.curDownloadIdx_
    /\ preMainVisited_ = s.preMainVisited_
    /\ prePrevVisited_ = s.prePrevVisited_
    /\ prevNextClicked_ = s.prevNextClicked_
    /\ iframeQueue_ = s.iframeQueue_
    /\ downloads_ = s.downloads_
    /\ widthSignal_ = s.widthSignal_
    /\ heightSignal_ = s.heightSignal_
    /\ rootViewport_ = s.rootViewport_
    /\ paddedRootViewport_ = s.paddedRootViewport_
    /\ inactivityTimeoutLong_ = s.inactivityTimeoutLong_
    /\ inactivityTimeoutShort_ = s.inactivityTimeoutShort_
    /\ sinceNavigate = s.sinceNavigate
    /\ sinceSecurity = s.sinceSecurity
    /\ response = s.response
    /\ closeBrowserCalls = s.closeBrowserCalls
    /\ navCmd = s.navCmd
    /\ dispatched = s.dispatched
    /\ imageWaiting = s.imageWaiting
    /\ frame = s.frame
    /\ sessionClosedPosts = s.sessionClosedPosts
    /\ stateTrail = s.stateTrail
    /\ eventTrail = s.eventTrail
    /\ effects = s.effects
    /\ mainServed = s.mainServed
    /\ requireFailed = s.requireFailed
    /\ usedSessionIDs = NoSessions.usedSessionIDs
    /\ liveSessions = NoSessions.liveSessions
    /\ eraseTasks = NoSessions.eraseTasks
    /\ createdSessions = NoSessions.createdSessions
    /\ announcedSessions = NoSessions.announcedSessions

NoResponse == [status |-> 0, body |-> "none"]

(* Every operation starts from a record in which the per-operation
   observations (the response, the navigation command, the trails and the
   effects) are blank. *)
Begin(s) == [s EXCEPT !.response = NoResponse, !.navCmd = "none",
                      !.stateTrail = <<>>, !.eventTrail = <<>>,
                      !.effects = {}]

(* An assignment to state_ *)
setState(s, newState) ==
    [s EXCEPT !.state_ = newState, !.stateTrail = Append(@, newState)]

(* REQUIRE(condition) *)
REQUIRE(s, condition) ==
    IF condition THEN s ELSE [s EXCEPT !.requireFailed = TRUE]

----------------------------------------------------------------------------
(* Session::Session *)

Constructed(popup) ==
    [ pc |-> "constructed", state_ |-> Pending, isPopup_ |-> popup,
      browser_ |-> FALSE, closeOnOpen_ |-> FALSE,
      curMainIdx_ |-> 0, curImgIdx_ |-> 0, curEventIdx_ |-> 0,
      curDownloadIdx_ |-> 0,
      preMainVisited_ |-> FALSE, prePrevVisited_ |-> FALSE,
      prevNextClicked_ |-> FALSE,
      iframeQueue_ |-> <<>>, downloads_ |-> {},
      widthSignal_ |-> WidthSignalNoNewIframe, heightSignal_ |-> NormalCursor,
      rootViewport_ |-> <<InitialViewportWidth, InitialViewportHeight>>,
      paddedRootViewport_ |-> <<InitialViewportWidth + WidthSignalModulus - 1,
                                InitialViewportHeight + HeightSignalModulus - 1>>,
      inactivityTimeoutLong_ |-> FALSE, inactivityTimeoutShort_ |-> FALSE,
      sinceNavigate |-> 0, sinceSecurity |-> 0,
      response |-> NoResponse, closeBrowserCalls |-> 0, navCmd |-> "none",
      dispatched |-> <<>>, imageWaiting |-> FALSE, frame |-> <<0, 0>>,
      sessionClosedPosts |-> 0, stateTrail |-> <<>>, eventTrail |-> <<>>,
      effects |-> {}, mainServed |-> FALSE,
      requireFailed |-> FALSE ]

Init == \E popup \in BOOLEAN : StartsAs(Constructed(popup))

----------------------------------------------------------------------------
(* Image compressor (collaborator): flush answers a held request *)

flush(s) ==
    [s EXCEPT !.imageWaiting = FALSE,
              !.effects = IF s.imageWaiting THEN @ \cup {"heldAnswered"} ELSE @]

(* updateInactivityTimeout_ that clears only the timer it is about to arm *)
updateInactivityTimeout_keepsOther(s, shortened) ==
    IF s.state_ = Pending \/ s.state_ = Open
    THEN IF shortened
         THEN [s EXCEPT !.inactivityTimeoutShort_ = TRUE]
         ELSE [s EXCEPT !.inactivityTimeoutLong_ = TRUE]
    ELSE [s EXCEPT !.inactivityTimeoutLong_ = FALSE,
                   !.inactivityTimeoutShort_ = FALSE]

(* Session::updateInactivityTimeout_ *)
updateInactivityTimeout_(s, shortened) ==
    LET cleared == [s EXCEPT !.inactivityTimeoutLong_ = FALSE,
                             !.inactivityTimeoutShort_ = FALSE]
    IN  IF s.state_ = Pending \/ s.state_ = Open
        THEN IF shortened
             THEN [cleared EXCEPT !.inactivityTimeoutShort_ = TRUE]
             ELSE [cleared EXCEPT !.inactivityTimeoutLong_ = TRUE]
        ELSE cleared

(* close() that also tears down while the session is already Closing *)
close_repeatsTeardown(s) ==
    IF s.state_ = Open \/ s.state_ = Closing
    THEN LET s1 == setState(s, Closing)
             s2 == REQUIRE(s1, s1.browser_)
         IN  flush([s2 EXCEPT !.closeBrowserCalls = @ + 1])
    ELSE IF s.state_ = Pending
    THEN [s EXCEPT !.closeOnOpen_ = TRUE]
    ELSE s

(* close() that treats a Pending session like an Open one *)
close_fromPending(s) ==
    IF s.state_ = Open \/ s.state_ = Pending
    THEN LET s1 == setState(s, Closing)
             s2 == REQUIRE(s1, s1.browser_)
         IN  flush([s2 EXCEPT !.closeBrowserCalls = @ + 1])
    ELSE s

(* Session::close *)
close(s) ==
    IF s.state_ = Open
    THEN LET s1 == setState(s, Closing)
             s2 == REQUIRE(s1, s1.browser_)
         IN  flush([s2 EXCEPT !.closeBrowserCalls = @ + 1])
    ELSE IF s.state_ = Pending
    THEN [s EXCEPT !.closeOnOpen_ = TRUE]
    ELSE s

(* afterConstruct_ that does not report a failed browser creation *)
afterConstruct_silentFailure(s, created) ==
    LET s1 == IF ~s.isPopup_ /\ ~created THEN setState(s, Closed) ELSE s
    IN  updateInactivityTimeout_([s1 EXCEPT !.pc = "running"], FALSE)

(* Session::afterConstruct_; created is the result of CefBrowserHost::CreateBrowser *)
afterConstruct_(s, created) ==
    LET s1 == IF ~s.isPopup_ /\ ~created
              THEN [setState(s, Closed) EXCEPT !.sessionClosedPosts = @ + 1]
              ELSE s
    IN  updateInactivityTimeout_([s1 EXCEPT !.pc = "running"], FALSE)

(* OnAfterCreated that forgets the deferred close *)
OnAfterCreated_ignoresCloseOnOpen(s) ==
    LET s0 == REQUIRE(s, s.state_ = Pending)
    IN  setState([s0 EXCEPT !.browser_ = TRUE], Open)

(* Session::Client::OnAfterCreated *)
OnAfterCreated(s) ==
    LET s0 == REQUIRE(s, s.state_ = Pending)
        s1 == setState([s0 EXCEPT !.browser_ = TRUE], Open)
    IN  IF s1.closeOnOpen_ THEN close(s1) ELSE s1

(* OnBeforeClose that leaves the compressor alone *)
OnBeforeClose_noFlush(s) ==
    LET s0 == REQUIRE(s, s.state_ = Open \/ s.state_ = Closing)
        s1 == [setState(s0, Closed) EXCEPT !.browser_ = FALSE]
        s2 == [s1 EXCEPT !.sessionClosedPosts = @ + 1]
    IN  updateInactivityTimeout_(s2, FALSE)

(* OnBeforeClose that keeps the browser pointer *)
OnBeforeClose_keepsHandle(s) ==
    LET s0 == REQUIRE(s, s.state_ = Open \/ s.state_ = Closing)
        s1 == setState(s0, Closed)
        s2 == [flush(s1) EXCEPT !.sessionClosedPosts = @ + 1]
    IN  updateInactivityTimeout_(s2, FALSE)

(* Session::Client::OnBeforeClose *)
OnBeforeClose(s) ==
    LET s0 == REQUIRE(s, s.state_ = Open \/ s.state_ = Closing)
        s1 == [setState(s0, Closed) EXCEPT !.browser_ = FALSE]
        s2 == [flush(s1) EXCEPT !.sessionClosedPosts = @ + 1]
    IN  updateInactivityTimeout_(s2, FALSE)

----------------------------------------------------------------------------
(* HTTP requests.  A request is its method, the pattern its path matches
   (kind; the seven path patterns exclude each other) and the captured
   fields.  A captured digit string is its value, or Overflow when the
   digits exceed the range of the target type. *)

Overflow == -1
None == -2

(* parseString<T>: empty optional when the digits do not fit T *)
parseString(str) == IF str = Overflow THEN None ELSE str

Req(method, kind, mainIdx, imgIdx, immediate, width, height, startEventIdx, events, downloadIdx) ==
    [ method |-> method, kind |-> kind, mainIdx |-> mainIdx, imgIdx |-> imgIdx,
      immediate |-> immediate, width |-> width, height |-> height,
      startEventIdx |-> startEventIdx, events |-> events,
      downloadIdx |-> downloadIdx ]

Respond(s, status, body) == [s EXCEPT !.response = [status |-> status, body |-> body]]

----------------------------------------------------------------------------
(* Session::updateSecurityStatus_ *)
updateSecurityStatus_(s) == [s EXCEPT !.sinceSecurity = 0]

(* navigate_ that lets a command through at exactly the debounce interval *)
navigate_strictDebounce(s, direction) ==
    IF s.sinceNavigate < NavigateDebounceMs
    THEN [s EXCEPT !.effects = @ \cup {"debounced"}]
    ELSE LET s1 == [s EXCEPT !.sinceNavigate = 0]
         IN  IF s1.browser_
             THEN [s1 EXCEPT !.navCmd = CASE direction = -1 -> "GoBack"
                                          [] direction = 0 -> "Reload"
                                          [] direction = 1 -> "GoForward"]
             ELSE s1

(* Session::navigate_ *)
navigate_(s, direction) ==
    IF s.sinceNavigate <= NavigateDebounceMs
    THEN [s EXCEPT !.effects = @ \cup {"debounced"}]
    ELSE LET s1 == [s EXCEPT !.sinceNavigate = 0]
         IN  IF s1.browser_
             THEN [s1 EXCEPT !.navCmd = CASE direction = -1 -> "GoBack"
                                          [] direction = 0 -> "Reload"
                                          [] direction = 1 -> "GoForward"]
             ELSE s1

(* The largest value <= from that is congruent to signal; the decrementing
   loops of Session::sendViewportToCompressor_ *)
RECURSIVE decrementTo(_, _, _)
decrementTo(value, modulus, signal) ==
    IF value % modulus # signal
    THEN decrementTo(value - 1, modulus, signal)
    ELSE value

(* sendViewportToCompressor_ that hands over the whole padded buffer *)
sendViewportToCompressor_uncropped(s0) ==
    [s0 EXCEPT !.frame = s0.paddedRootViewport_,
               !.effects = @ \cup {"updateImage"}]

(* Session::sendViewportToCompressor_ *)
sendViewportToCompressor_(s0) ==
    LET s == REQUIRE(REQUIRE(s0, s0.widthSignal_ >= 0 /\ s0.widthSignal_ < WidthSignalModulus),
                     s0.heightSignal_ >= 0 /\ s0.heightSignal_ < HeightSignalModulus)
    IN
    [s EXCEPT !.frame =
        << decrementTo(s.paddedRootViewport_[1], WidthSignalModulus, s.widthSignal_),
           decrementTo(s.paddedRootViewport_[2], HeightSignalModulus, s.heightSignal_) >>,
              !.effects = @ \cup {"updateImage"}]

(* Session::setWidthSignal_ *)
setWidthSignal_(s, newWidthSignal) ==
    IF newWidthSignal # s.widthSignal_
    THEN sendViewportToCompressor_([s EXCEPT !.widthSignal_ = newWidthSignal])
    ELSE s

(* Session::setHeightSignal_ *)
setHeightSignal_(s, newHeightSignal) ==
    IF newHeightSignal # s.heightSignal_
    THEN sendViewportToCompressor_([s EXCEPT !.heightSignal_ = newHeightSignal])
    ELSE s

(* addIframe_ that queues the producer without signalling it *)
addIframe_keepsSignal(s, iframe) == [s EXCEPT !.iframeQueue_ = Append(@, iframe)]

(* Session::addIframe_ *)
addIframe_(s, iframe) ==
    setWidthSignal_([s EXCEPT !.iframeQueue_ = Append(@, iframe)],
                    WidthSignalNewIframe)

(* updateRootViewportSize_ that allocates the buffer without padding *)
updateRootViewportSize_unpadded(s, w, h) ==
    LET width == Max(Min(w, MaxViewportSize), MinViewportSize)
        height == Max(Min(h, MaxViewportSize), MinViewportSize)
    IN  IF s.rootViewport_[1] # width \/ s.rootViewport_[2] # height
        THEN [s EXCEPT !.paddedRootViewport_ = <<width, height>>,
                       !.rootViewport_ = <<width, height>>,
                       !.effects = @ \cup {"createImage"}]
        ELSE s

(* updateRootViewportSize_ that allocates a buffer on every call *)
updateRootViewportSize_alwaysAllocates(s, w, h) ==
    LET width == Max(Min(w, MaxViewportSize), MinViewportSize)
        height == Max(Min(h, MaxViewportSize), MinViewportSize)
    IN  [s EXCEPT !.paddedRootViewport_ =
                      <<width + WidthSignalModulus - 1,
                        height + HeightSignalModulus - 1>>,
                  !.rootViewport_ = <<width, height>>,
                  !.effects = @ \cup {"createImage"}]

(* Session::updateRootViewportSize_ *)
updateRootViewportSize_(s, w, h) ==
    LET width == Max(Min(w, MaxViewportSize), MinViewportSize)
        height == Max(Min(h, MaxViewportSize), MinViewportSize)
    IN  IF s.rootViewport_[1] # width \/ s.rootViewport_[2] # height
        THEN [s EXCEPT !.paddedRootViewport_ =
                           <<width + WidthSignalModulus - 1,
                             height + HeightSignalModulus - 1>>,
                       !.rootViewport_ = <<width, height>>,
                       !.effects = @ \cup {"createImage"}]
        ELSE s

----------------------------------------------------------------------------
(* Event sequencer *)

(* Index of the first "/" of str, 0 when there is none *)
RECURSIVE firstSlash(_, _)
firstSlash(str, i) ==
    IF i > Len(str) THEN 0
    ELSE IF str[i] = "/" THEN i
    ELSE firstSlash(str, i + 1)

(* The result of processEvent: TRUE iff the token parses as an event *)
eventParses(token) == token[1] = "E"

(* processEvent: the token is handed to the widget tree; a token that does
   not parse is logged *)
processEvent(s, eventIdx, token) ==
    [s EXCEPT !.dispatched = Append(@, eventIdx),
              !.effects = IF eventParses(token) THEN @ ELSE @ \cup {"couldNotParse"}]

(* A test that applies every token of a batch *)
tokenExpected_always(s, eventIdx) == TRUE

(* The test that a token is the expected one *)
tokenExpected(s, eventIdx) == eventIdx = s.curEventIdx_

(* A token loop that keeps expecting a token that did not parse *)
RECURSIVE handleEventsLoop_retriesUnparsed(_, _, _)
handleEventsLoop_retriesUnparsed(s, eventIdx, rest) ==
    LET eventEnd == firstSlash(rest, 1)
    IN  IF eventEnd = 0
        THEN s
        ELSE LET token == SubSeq(rest, 1, eventEnd)
                 s1 == IF tokenExpected(s, eventIdx)
                       THEN [processEvent(s, eventIdx, token)
                                EXCEPT !.curEventIdx_ =
                                           IF eventParses(token) THEN eventIdx + 1 ELSE @,
                                       !.eventTrail = Append(@, <<eventIdx, TRUE>>)]
                       ELSE [s EXCEPT !.eventTrail = Append(@, <<eventIdx, FALSE>>)]
             IN  handleEventsLoop_retriesUnparsed(s1, eventIdx + 1,
                                                  SubSeq(rest, eventEnd + 1, Len(rest)))

(* The token loop of Session::handleEvents_ *)
RECURSIVE handleEventsLoop(_, _, _)
handleEventsLoop(s, eventIdx, rest) ==
    LET eventEnd == firstSlash(rest, 1)
    IN  IF eventEnd = 0
        THEN s
        ELSE LET token == SubSeq(rest, 1, eventEnd)
                 s1 == IF tokenExpected(s, eventIdx)
                       THEN [processEvent(s, eventIdx, token)
                                EXCEPT !.curEventIdx_ = eventIdx + 1,
                                       !.eventTrail = Append(@, <<eventIdx, TRUE>>)]
                       ELSE [s EXCEPT !.eventTrail = Append(@, <<eventIdx, FALSE>>)]
             IN  handleEventsLoop(s1, eventIdx + 1,
                                  SubSeq(rest, eventEnd + 1, Len(rest)))

(* A sequencer that never jumps over lost events *)
skipLostEvents_never(s, startIdx) == s

(* The jump over lost events at the start of Session::handleEvents_ *)
skipLostEvents(s, startIdx) ==
    IF startIdx > s.curEventIdx_
    THEN [s EXCEPT !.curEventIdx_ = startIdx]
    ELSE s

(* Session::handleEvents_ *)
handleEvents_(s, startIdx, events) ==
    handleEventsLoop(skipLostEvents(s, startIdx), startIdx, events)

----------------------------------------------------------------------------
(* Iframe producers *)

ClipboardIframe == [kind |-> "clipboard", file |-> "-", popupSessionID |-> 0]
DownloadIframe(file) == [kind |-> "download", file |-> file, popupSessionID |-> 0]
PopupIframe(popupSessionID) ==
    [kind |-> "popup", file |-> "-", popupSessionID |-> popupSessionID]

hasDownload(s, idx) == \E d \in s.downloads_ : d[1] = idx

(* A download producer that gives the download the lowest index that is
   not in the ledger *)
invokeIframe_reusesFreeIndex(s, iframe) ==
    IF iframe.kind = "download"
    THEN LET downloadIdx ==
                 CHOOSE i \in 1..(Cardinality(s.downloads_) + 1) :
                     /\ ~hasDownload(s, i)
                     /\ \A j \in 1..(i - 1) : hasDownload(s, j)
             s1 == [s EXCEPT !.curDownloadIdx_ = Max(@, downloadIdx)]
             s2 == REQUIRE(s1, ~hasDownload(s1, downloadIdx))
         IN  Respond([s2 EXCEPT !.downloads_ = @ \cup {<<downloadIdx, iframe.file, 0>>}],
                     200, "downloadIframe")
    ELSE IF iframe.kind = "popup"
    THEN Respond(s, 200, "popupIframe")
    ELSE Respond(s, 200, "clipboardIframe")

(* The closures queued by onClipboardButtonPressed and onDownloadCompleted,
   invoked on the iframe request *)
invokeIframe(s, iframe) ==
    IF iframe.kind = "download"
    THEN LET downloadIdx == s.curDownloadIdx_ + 1
             s1 == [s EXCEPT !.curDownloadIdx_ = downloadIdx]
             s2 == REQUIRE(s1, ~hasDownload(s1, downloadIdx))
         IN  Respond([s2 EXCEPT !.downloads_ = @ \cup {<<downloadIdx, iframe.file, 0>>}],
                     200, "downloadIframe")
    ELSE IF iframe.kind = "popup"
    THEN Respond(s, 200, "popupIframe")
    ELSE Respond(s, 200, "clipboardIframe")

----------------------------------------------------------------------------
(* Session::handleHTTPRequest, one operator per endpoint *)

(* A validation that accepts a replayed image sequence number *)
imageOutdated_acceptsReplay(s, req) ==
    req.mainIdx # s.curMainIdx_ \/ req.imgIdx < s.curImgIdx_

(* A validation that lets any sequence number open a generation *)
imageOutdated_anyFirstPoll(s, req) ==
    req.mainIdx # s.curMainIdx_ \/ (s.curImgIdx_ > 0 /\ req.imgIdx <= s.curImgIdx_)

(* The validation of an image poll *)
imageOutdated(s, req) ==
    req.mainIdx # s.curMainIdx_ \/ req.imgIdx <= s.curImgIdx_

(* The accepted branch of the image endpoint *)
imageAccepted(s, req) ==
    LET s1 == updateInactivityTimeout_(s, FALSE)
        s2 == handleEvents_(s1, req.startEventIdx, req.events)
        s3 == [s2 EXCEPT !.curImgIdx_ = req.imgIdx]
        s4 == updateRootViewportSize_(s3, req.width, req.height)
    IN  IF req.immediate # 0
        THEN Respond([s4 EXCEPT !.imageWaiting = FALSE], 200, "image")
        ELSE Respond([s4 EXCEPT !.imageWaiting = TRUE], 0, "held")

(* An image endpoint that rearms the inactivity timer before validating *)
imageEndpoint_rearmsFirst(s, req) ==
    IF imageOutdated(s, req)
    THEN Respond(updateInactivityTimeout_(s, FALSE), 400, "Outdated request")
    ELSE imageAccepted(s, req)

imageEndpoint(s, req) ==
    IF imageOutdated(s, req)
    THEN Respond(s, 400, "Outdated request")
    ELSE imageAccepted(s, req)

(* An iframe endpoint that serves the producer enqueued last *)
iframeEndpoint_newestFirst(s, req) ==
    IF req.mainIdx # s.curMainIdx_
    THEN Respond(s, 400, "Outdated request")
    ELSE IF s.iframeQueue_ = <<>>
    THEN Respond(s, 200, "OK")
    ELSE LET s1 == updateInactivityTimeout_(s, FALSE)
             iframe == s1.iframeQueue_[Len(s1.iframeQueue_)]
             s2 == [s1 EXCEPT !.iframeQueue_ = SubSeq(@, 1, Len(@) - 1)]
             s3 == IF s2.iframeQueue_ = <<>>
                   THEN setWidthSignal_(s2, WidthSignalNoNewIframe)
                   ELSE s2
         IN  invokeIframe(s3, iframe)

(* An iframe endpoint that rearms the inactivity timer before it looks at
   the queue *)
iframeEndpoint_rearmsOnEmpty(s, req) ==
    IF req.mainIdx # s.curMainIdx_
    THEN Respond(s, 400, "Outdated request")
    ELSE LET s1 == updateInactivityTimeout_(s, FALSE)
         IN  IF s1.iframeQueue_ = <<>>
             THEN Respond(s1, 200, "OK")
             ELSE LET iframe == Head(s1.iframeQueue_)
                      s2 == [s1 EXCEPT !.iframeQueue_ = Tail(@)]
                      s3 == IF s2.iframeQueue_ = <<>>
                            THEN setWidthSignal_(s2, WidthSignalNoNewIframe)
                            ELSE s2
                  IN  invokeIframe(s3, iframe)

iframeEndpoint(s, req) ==
    IF req.mainIdx # s.curMainIdx_
    THEN Respond(s, 400, "Outdated request")
    ELSE IF s.iframeQueue_ = <<>>
    THEN Respond(s, 200, "OK")
    ELSE LET s1 == updateInactivityTimeout_(s, FALSE)
             iframe == Head(s1.iframeQueue_)
             s2 == [s1 EXCEPT !.iframeQueue_ = Tail(@)]
             s3 == IF s2.iframeQueue_ = <<>>
                   THEN setWidthSignal_(s2, WidthSignalNoNewIframe)
                   ELSE s2
         IN  invokeIframe(s3, iframe)

(* A download endpoint that validates the generation like the polls do *)
downloadEndpoint_checksGeneration(s, req) ==
    IF req.mainIdx # s.curMainIdx_
    THEN Respond(s, 400, "Outdated request")
    ELSE IF ~hasDownload(s, req.downloadIdx)
    THEN Respond(s, 400, "Outdated download index")
    ELSE Respond(s, 200, "file")

(* A download endpoint that restarts the expiry timer of the entry it
   serves *)
downloadEndpoint_restartsTimer(s, req) ==
    IF ~hasDownload(s, req.downloadIdx)
    THEN Respond(s, 400, "Outdated download index")
    ELSE Respond([s EXCEPT !.downloads_ =
                      {IF d[1] = req.downloadIdx THEN <<d[1], d[2], 0>> ELSE d : d \in @}],
                 200, "file")

downloadEndpoint(s, req) ==
    IF ~hasDownload(s, req.downloadIdx)
    THEN Respond(s, 400, "Outdated download index")
    ELSE Respond(s, 200, "file")

(* A close endpoint that resets the counters without starting a generation *)
closeEndpoint_keepsMainIdx(s, req) ==
    IF req.mainIdx # s.curMainIdx_
    THEN Respond(s, 400, "Outdated request")
    ELSE Respond(
            updateInactivityTimeout_(
                [s EXCEPT !.curImgIdx_ = 0,
                          !.curEventIdx_ = 0,
                          !.dispatched = <<>>],
                TRUE),
            200, "OK")

(* A close endpoint that rearms the long inactivity timer *)
closeEndpoint_armsLongTimer(s, req) ==
    IF req.mainIdx # s.curMainIdx_
    THEN Respond(s, 400, "Outdated request")
    ELSE Respond(
            updateInactivityTimeout_(
                [s EXCEPT !.curMainIdx_ = @ + 1,
                          !.curImgIdx_ = 0,
                          !.curEventIdx_ = 0,
                          !.dispatched = <<>>],
                FALSE),
            200, "OK")

closeEndpoint(s, req) ==
    IF req.mainIdx # s.curMainIdx_
    THEN Respond(s, 400, "Outdated request")
    ELSE Respond(
            updateInactivityTimeout_(
                [s EXCEPT !.curMainIdx_ = @ + 1,
                          !.curImgIdx_ = 0,
                          !.curEventIdx_ = 0,
                          !.dispatched = <<>>],
                TRUE),
            200, "OK")

(* A main endpoint that bumps the generation on the bootstrap visit too *)
mainEndpoint_countsBootstrap(s, req) ==
    LET s1 == updateInactivityTimeout_(s, FALSE)
    IN  IF s1.preMainVisited_
        THEN LET s2 == [s1 EXCEPT !.curMainIdx_ = @ + 1, !.dispatched = <<>>]
                 s3 == IF s2.curMainIdx_ > 1 /\ ~s2.prevNextClicked_
                       THEN navigate_(s2, 0)
                       ELSE s2
             IN  Respond([s3 EXCEPT !.prevNextClicked_ = FALSE,
                                    !.curImgIdx_ = 0,
                                    !.curEventIdx_ = 0,
                                    !.mainServed = TRUE],
                         200, "main")
        ELSE [Respond(s1, 200, "preMain") EXCEPT !.preMainVisited_ = TRUE,
                                                 !.curMainIdx_ = @ + 1]

mainEndpoint(s, req) ==
    LET s1 == updateInactivityTimeout_(s, FALSE)
    IN  IF s1.preMainVisited_
        THEN LET s2 == [s1 EXCEPT !.curMainIdx_ = @ + 1, !.dispatched = <<>>]
                 s3 == IF s2.curMainIdx_ > 1 /\ ~s2.prevNextClicked_
                       THEN navigate_(s2, 0)
                       ELSE s2
             IN  Respond([s3 EXCEPT !.prevNextClicked_ = FALSE,
                                    !.curImgIdx_ = 0,
                                    !.curEventIdx_ = 0,
                                    !.mainServed = TRUE],
                         200, "main")
        ELSE [Respond(s1, 200, "preMain") EXCEPT !.preMainVisited_ = TRUE]

(* A prev endpoint that navigates however often it is hit *)
prevEndpoint_navigatesAgain(s, req) ==
    LET s1 == updateInactivityTimeout_(s, FALSE)
        s2 == IF s1.curMainIdx_ > 0
              THEN navigate_([s1 EXCEPT !.prevNextClicked_ = TRUE], -1)
              ELSE s1
    IN  IF s2.prePrevVisited_
        THEN Respond(s2, 200, "prev")
        ELSE [Respond(s2, 200, "prePrev") EXCEPT !.prePrevVisited_ = TRUE]

prevEndpoint(s, req) ==
    LET s1 == updateInactivityTimeout_(s, FALSE)
        s2 == IF s1.curMainIdx_ > 0 /\ ~s1.prevNextClicked_
              THEN navigate_([s1 EXCEPT !.prevNextClicked_ = TRUE], -1)
              ELSE s1
    IN  IF s2.prePrevVisited_
        THEN Respond(s2, 200, "prev")
        ELSE [Respond(s2, 200, "prePrev") EXCEPT !.prePrevVisited_ = TRUE]

(* A next endpoint that records the navigation only when a command went
   to the browser *)
nextEndpoint_latchesOnCommand(s, req) ==
    LET s1 == updateInactivityTimeout_(s, FALSE)
        s2 == IF s1.curMainIdx_ > 0 /\ ~s1.prevNextClicked_
              THEN LET s3 == navigate_(s1, 1)
                   IN  [s3 EXCEPT !.prevNextClicked_ = (s3.navCmd # "none")]
              ELSE s1
    IN  Respond(s2, 200, "next")

nextEndpoint(s, req) ==
    LET s1 == updateInactivityTimeout_(s, FALSE)
        s2 == IF s1.curMainIdx_ > 0 /\ ~s1.prevNextClicked_
              THEN navigate_([s1 EXCEPT !.prevNextClicked_ = TRUE], 1)
              ELSE s1
    IN  Respond(s2, 200, "next")

(* The opening test that lets a Closing session serve requests *)
sessionClosed_onlyClosed(s) == s.state_ = Closed

(* A closed-session check that counts a deferred close as closed *)
sessionClosed_countsDeferredClose(s) ==
    s.state_ = Closing \/ s.state_ = Closed \/ s.closeOnOpen_

(* The test that opens Session::handleHTTPRequest *)
sessionClosed(s) == s.state_ = Closing \/ s.state_ = Closed

(* Session::handleHTTPRequest *)
handleHTTPRequest(s0, req) ==
    IF sessionClosed(s0)
    THEN Respond(s0, 503, "Browser session has been closed")
    ELSE
    LET s == IF s0.sinceSecurity >= SecurityStatusRefreshMs
             THEN updateSecurityStatus_(s0)
             ELSE s0
        get == req.method = "GET"
        parsed(field) == parseString(field) # None
    IN  IF /\ get /\ req.kind = "image"
           /\ parsed(req.mainIdx) /\ parsed(req.imgIdx) /\ parsed(req.immediate)
           /\ parsed(req.width) /\ parsed(req.height) /\ parsed(req.startEventIdx)
        THEN imageEndpoint(s, req)
        ELSE IF get /\ req.kind = "iframe" /\ parsed(req.mainIdx)
        THEN iframeEndpoint(s, req)
        ELSE IF get /\ req.kind = "download" /\ parsed(req.downloadIdx)
        THEN downloadEndpoint(s, req)
        ELSE IF get /\ req.kind = "close" /\ parsed(req.mainIdx)
        THEN closeEndpoint(s, req)
        ELSE IF get /\ req.kind = "main"
        THEN mainEndpoint(s, req)
        ELSE IF get /\ req.kind = "prev"
        THEN prevEndpoint(s, req)
        ELSE IF get /\ req.kind = "next"
        THEN nextEndpoint(s, req)
        ELSE Respond(s, 400, "Invalid request URI or method")

----------------------------------------------------------------------------
(* Callbacks and timers *)

(* A timer callback that closes only a session that is already Open *)
inactivityTimeoutReached_ignoresPending(s, shortened) ==
    LET s1 == IF shortened
              THEN [s EXCEPT !.inactivityTimeoutShort_ = FALSE]
              ELSE [s EXCEPT !.inactivityTimeoutLong_ = FALSE]
    IN  IF s1.state_ = Open
        THEN close(s1)
        ELSE s1

(* A timer callback that only disarms the timer *)
inactivityTimeoutReached_onlyDisarms(s, shortened) ==
    IF shortened
    THEN [s EXCEPT !.inactivityTimeoutShort_ = FALSE]
    ELSE [s EXCEPT !.inactivityTimeoutLong_ = FALSE]

(* The callback armed by Session::updateInactivityTimeout_, run when the
   timer expires *)
inactivityTimeoutReached(s, shortened) ==
    LET s1 == IF shortened
              THEN [s EXCEPT !.inactivityTimeoutShort_ = FALSE]
              ELSE [s EXCEPT !.inactivityTimeoutLong_ = FALSE]
    IN  IF s1.state_ = Pending \/ s1.state_ = Open
        THEN close(s1)
        ELSE s1

(* The id loop of Session::Session that takes its first draw as it comes *)
chooseSessionID_firstDraw(draws, used) == Head(draws)

(* The id loop of Session::Session: draw until the value is not in use *)
RECURSIVE chooseSessionID(_, _)
chooseSessionID(draws, used) ==
    IF Head(draws) \notin used
    THEN Head(draws)
    ELSE chooseSessionID(Tail(draws), used)

(* Session::create for another session of the process: the constructor
   takes an id and reserves it, afterConstruct_ finishes the object *)
createSession(p, draws, popup) ==
    LET id == chooseSessionID(draws, p.usedSessionIDs)
        session == afterConstruct_(Constructed(popup), TRUE)
    IN  [p EXCEPT !.usedSessionIDs = @ \cup {id},
                  !.liveSessions[id] = @ + 1,
                  !.createdSessions =
                      Append(@, [id |-> id, isPopup_ |-> session.isPopup_,
                                 state_ |-> session.state_])]

(* Session::~Session of another session: posts the task that releases its id *)
destroySession(p, id) ==
    [p EXCEPT !.liveSessions[id] = @ - 1, !.eraseTasks[id] = @ + 1]

(* The task posted by Session::~Session *)
eraseSessionID(p, id) ==
    [p EXCEPT !.usedSessionIDs = @ \ {id}, !.eraseTasks[id] = @ - 1]

(* OnBeforePopup that does not hand the popup session to the event handler *)
OnBeforePopup_skipsAnnouncement(s, p, handlerAlive, serverFull, draws) ==
    IF ~handlerAlive
    THEN [session |-> [s EXCEPT !.effects = @ \cup {"popupCancelled"}], process |-> p]
    ELSE IF serverFull
    THEN [session |-> [s EXCEPT !.effects = @ \cup {"popupCancelled"}], process |-> p]
    ELSE LET p1 == createSession(p, draws, TRUE)
             popupSessionID == p1.createdSessions[Len(p1.createdSessions)].id
             s1 == addIframe_(s, PopupIframe(popupSessionID))
         IN  [session |-> [s1 EXCEPT !.effects = @ \cup {"popupAllowed"}],
              process |-> p1]

(* Session::Client::OnBeforePopup on the session s in the process p;
   handlerAlive is the result of eventHandler_.lock(), serverFull that of
   onIsServerFullQuery *)
OnBeforePopup(s, p, handlerAlive, serverFull, draws) ==
    IF ~handlerAlive
    THEN [session |-> [s EXCEPT !.effects = @ \cup {"popupCancelled"}], process |-> p]
    ELSE IF serverFull
    THEN [session |-> [s EXCEPT !.effects = @ \cup {"popupCancelled"}], process |-> p]
    ELSE LET p1 == createSession(p, draws, TRUE)
             popupSessionID == p1.createdSessions[Len(p1.createdSessions)].id
             p2 == [p1 EXCEPT !.announcedSessions = Append(@, popupSessionID)]
             s1 == addIframe_(s, PopupIframe(popupSessionID))
         IN  [session |-> [s1 EXCEPT !.effects = @ \cup {"popupAllowed"}],
              process |-> p2]

(* Session::Client::OnPreKeyEvent: Backspace outside an editable field
   navigates back, or forward with Shift *)
OnPreKeyEvent(s, backspace, editable, shift) ==
    IF backspace /\ ~editable
    THEN navigate_(s, IF shift THEN 1 ELSE -1)
    ELSE s

(* The task posted by Session::onGlobalHotkeyPressed *)
onGlobalHotkeyPressed(s, key) ==
    IF key = "Refresh" THEN navigate_(s, 0) ELSE s

(* Session::onClipboardButtonPressed *)
onClipboardButtonPressed(s) == addIframe_(s, ClipboardIframe)

(* onDownloadCompleted that registers the file when the download completes *)
onDownloadCompleted_registersAtCompletion(s, file) ==
    LET downloadIdx == s.curDownloadIdx_ + 1
    IN  addIframe_([s EXCEPT !.curDownloadIdx_ = downloadIdx,
                             !.downloads_ = @ \cup {<<downloadIdx, file, 0>>}],
                   DownloadIframe(file))

(* Session::onDownloadCompleted *)
onDownloadCompleted(s, file) == addIframe_(s, DownloadIframe(file))

(* The expiry callback armed in the download producer *)
downloadTimeoutReached(s, downloadIdx) ==
    [s EXCEPT !.downloads_ = {d \in @ : d[1] # downloadIdx}]

(* The task posted by Session::onWidgetCursorChanged *)
onWidgetCursorChanged(s, cursor) ==
    setHeightSignal_(REQUIRE(s, cursor >= 0 /\ cursor < CursorTypeCount), cursor)

(* Session::onBrowserAreaViewDirty and the task of onWidgetViewDirty *)
onViewDirty(s) == sendViewportToCompressor_(s)

(* steady_clock advancing by ms milliseconds *)
elapse(s, ms) ==
    [s EXCEPT !.sinceNavigate = Min(@ + ms, NavigateDebounceMs + 1),
              !.sinceSecurity = Min(@ + ms, SecurityStatusRefreshMs),
              !.downloads_ = {<<d[1], d[2], Min(d[3] + ms, DownloadTTL)>> : d \in @}]

(* Timeout (collaborator): the expiry timer of a ledger entry has run its
   delay *)
downloadDue(s, downloadIdx) ==
    \E d \in s.downloads_ : d[1] = downloadIdx /\ d[3] >= DownloadTTL

----------------------------------------------------------------------------
(* Inputs *)

Files == {"a"}

Tokens == {<<"E", "/">>}

RECURSIVE Batches(_)
Batches(n) ==
    IF n = 0 THEN {<<>>}
    ELSE {<<>>} \cup {t \o b : t \in Tokens, b \in Batches(n - 1)}

tokenCount(events) == Cardinality({i \in 1..Len(events) : events[i] = "/"})

(* <<startEventIdx, events>> pairs that stay inside the event bound *)
EventArgs ==
    {a \in (0..MaxEventIdx) \X Batches(MaxBatch) : a[1] + tokenCount(a[2]) <= MaxEventIdx}

(* <<immediate, width, height>> *)
ImageShapes == {<<1, 801, 600>>, <<0, 10, 5000>>}

ImageRequests(mains, imgs, shapes, eventArgs) ==
    {Req("GET", "image", m, i, sh[1], sh[2], sh[3], a[1], a[2], 0) :
        m \in mains, i \in imgs, sh \in shapes, a \in eventArgs}

IndexedRequests(mains) ==
    {Req("GET", k, m, 0, 0, 0, 0, 0, <<>>, 0) :
        k \in {"iframe", "close"}, m \in mains \cup {Overflow}}

DownloadRequests ==
    {Req("GET", "download", 0, 0, 0, 0, 0, 0, <<>>, d) :
        d \in (0..MaxDownloads) \cup {Overflow}}

PlainRequests ==
    {Req("GET", k, 0, 0, 0, 0, 0, 0, <<>>, 0) : k \in {"main", "prev", "next", "other"}}

MalformedRequests ==
    { Req("POST", "main", 0, 0, 0, 0, 0, 0, <<>>, 0),
      Req("POST", "image", 0, 1, 1, 801, 600, 0, <<>>, 0),
      Req("GET", "image", Overflow, 1, 1, 801, 600, 0, <<>>, 0),
      Req("GET", "image", 0, 1, 1, Overflow, 600, 0, <<>>, 0) }

(* The requests of the lifecycle specification: every endpoint, accepted
   and rejected, immediate and held polls with one event *)
Requests ==
    ImageRequests(0..MaxMainIdx, {1}, {<<1, 801, 600>>, <<0, 801, 600>>}, {<<0, <<"E", "/">> >>})
        \cup IndexedRequests(0..MaxMainIdx) \cup DownloadRequests
        \cup PlainRequests
        \cup MalformedRequests

(* The lifecycle specification leaves the navigation endpoints to the
   counter and polling specifications *)
LifecycleRequests == {r \in Requests : r.kind \notin {"prev", "next"}}

(* The requests of the polling specification: image polls over all
   generations and sequence numbers, and every other endpoint *)
PollRequests ==
    ImageRequests(0..MaxMainIdx, 0..MaxImgIdx, {<<1, 801, 600>>},
                  {<<0, <<>> >>, <<0, <<"E", "/">> >>})
        \cup IndexedRequests(0..MaxMainIdx) \cup DownloadRequests
        \cup PlainRequests \cup MalformedRequests

(* The requests of the event specification: accepted and replayed image
   polls over all event ranges, and the endpoints that start a generation *)
EventRequests ==
    ImageRequests(0..MaxMainIdx, 1..MaxImgIdx, {<<1, 801, 600>>}, EventArgs)
        \cup {r \in IndexedRequests(0..MaxMainIdx) : r.kind = "close"}
        \cup {r \in PlainRequests : r.kind = "main"}

(* The requests of the rejection specification: every endpoint that can
   answer 400, with the requests that make the polls and downloads stale *)
RejectRequests ==
    ImageRequests(0..MaxMainIdx, {1}, {<<1, 801, 600>>}, {<<0, <<>> >>})
        \cup IndexedRequests(0..MaxMainIdx) \cup DownloadRequests
        \cup {r \in PlainRequests : r.kind \in {"main", "other"}}
        \cup MalformedRequests

(* The requests of the iframe specification: iframe polls, current and
   stale, and the endpoints that start a generation *)
IframeRequests ==
    IndexedRequests(0..MaxMainIdx) \cup {r \in PlainRequests : r.kind = "main"}

(* Requested sizes inside, at and beyond the limits of the viewport *)
ViewportShapes ==
    ImageShapes \cup {<<1, 800, 600>>, <<1, 64, 4096>>, <<1, 63, 4097>>}

(* The requests of the viewport specification: image polls of every shape
   and iframe polls that drain the queue, all of the first generation *)
ViewportRequests ==
    ImageRequests({0}, 1..MaxImgIdx, ViewportShapes, {<<0, <<>> >>})
        \cup {r \in IndexedRequests({0}) : r.kind = "iframe"}

(* The cursor shapes the widget tree reports *)
Cursors == {NormalCursor, HandCursor, TextCursor}

TickSteps == {1000}

(* A clock step that runs every timer and interval out *)
ExpiryTickSteps == {DownloadTTL}

(* Clock steps below and above the navigation debounce interval *)
NavigateTickSteps == {50, 300}

(* The values the id loop draws before it ends: one to MaxDraws draws *)
Draws == UNION {[1..n -> SessionIDs] : n \in 1..MaxDraws}

(* The draws the loop makes: values in use, then one that is not *)
endsLoop(draws) ==
    /\ draws # <<>>
    /\ draws[Len(draws)] \notin usedSessionIDs
    /\ \A i \in 1..(Len(draws) - 1) : draws[i] \in usedSessionIDs

(* The hotkeys of the control bar *)
Hotkeys == {"Address", "Find", "FindNext", "Refresh"}

----------------------------------------------------------------------------
(* Actions *)

HandleHTTPRequest(req) ==
    /\ pc = "running"
    /\ LET after == handleHTTPRequest(Begin(Cur), req)
       IN  /\ after.curMainIdx_ <= MaxMainIdx
           /\ Become(after)

InactivityTimeout(shortened) ==
    /\ pc = "running"
    /\ IF shortened THEN inactivityTimeoutShort_ ELSE inactivityTimeoutLong_
    /\ Become(inactivityTimeoutReached(Begin(Cur), shortened))

ClipboardButtonPressed ==
    /\ pc = "running"
    /\ Len(iframeQueue_) < MaxQueue
    /\ Become(onClipboardButtonPressed(Begin(Cur)))

queuedDownloads == Cardinality({i \in 1..Len(iframeQueue_) : iframeQueue_[i].kind = "download"})

(* A download completes while fewer than limit downloads have completed *)
DownloadCompletedWithin(file, limit) ==
    /\ pc = "running"
    /\ Len(iframeQueue_) < MaxQueue
    /\ curDownloadIdx_ + queuedDownloads < limit
    /\ Become(onDownloadCompleted(Begin(Cur), file))

DownloadCompleted(file) == DownloadCompletedWithin(file, MaxDownloads)

DownloadTimeout(downloadIdx) ==
    /\ pc = "running"
    /\ downloadDue(Cur, downloadIdx)
    /\ Become(downloadTimeoutReached(Begin(Cur), downloadIdx))

CursorChanged(cursor) ==
    /\ pc = "running"
    /\ Become(onWidgetCursorChanged(Begin(Cur), cursor))

ViewDirty ==
    /\ pc = "running"
    /\ Become(onViewDirty(Begin(Cur)))

CompressorSends ==
    /\ pc = "running"
    /\ imageWaiting
    /\ Become([Begin(Cur) EXCEPT !.imageWaiting = FALSE])

Tick(ms) ==
    /\ pc = "running"
    /\ \A d \in downloads_ : ~downloadDue(Cur, d[1])
    /\ Become(elapse(Begin(Cur), ms))

BeforePopup(handlerAlive, serverFull, draws) ==
    /\ pc = "running"
    /\ browser_
    /\ Len(iframeQueue_) < MaxQueue
    /\ IF handlerAlive /\ ~serverFull THEN endsLoop(draws) ELSE draws = <<>>
    /\ LET opened == OnBeforePopup(Begin(Cur), BeginProcess(Process),
                                   handlerAlive, serverFull, draws)
       IN  SessionBecomes(opened.session) /\ ProcessBecomes(opened.process)

SessionCreated(draws) ==
    /\ endsLoop(draws)
    /\ SessionBecomes(Begin(Cur))
    /\ ProcessBecomes(createSession(BeginProcess(Process), draws, FALSE))

SessionDestroyed(id) ==
    /\ liveSessions[id] > 0
    /\ SessionBecomes(Begin(Cur))
    /\ ProcessBecomes(destroySession(BeginProcess(Process), id))

SessionIDReleased(id) ==
    /\ eraseTasks[id] > 0
    /\ SessionBecomes(Begin(Cur))
    /\ ProcessBecomes(eraseSessionID(BeginProcess(Process), id))

PreKeyEvent(backspace, editable, shift) ==
    /\ pc = "running"
    /\ browser_
    /\ Become(OnPreKeyEvent(Begin(Cur), backspace, editable, shift))

GlobalHotkeyPressed(key) ==
    /\ pc = "running"
    /\ Become(onGlobalHotkeyPressed(Begin(Cur), key))

AfterConstruct ==
    /\ pc = "constructed"
    /\ \E created \in BOOLEAN : Become(afterConstruct_(Begin(Cur), created))

Close ==
    /\ pc = "running"
    /\ Become(close(Begin(Cur)))

BrowserCreated ==
    /\ pc = "running"
    /\ state_ = Pending
    /\ Become(OnAfterCreated(Begin(Cur)))

BrowserClosed ==
    /\ pc = "running"
    /\ state_ = Open \/ state_ = Closing
    /\ Become(OnBeforeClose(Begin(Cur)))

Next ==
    \/ AfterConstruct
    \/ Close
    \/ BrowserCreated
    \/ BrowserClosed
    \/ \E req \in LifecycleRequests : HandleHTTPRequest(req)
    \/ \E shortened \in BOOLEAN : InactivityTimeout(shortened)
    \/ \E file \in Files : DownloadCompleted(file)
    \/ CompressorSends

Spec == Init /\ [][Next]_vars

NextPoll ==
    \/ AfterConstruct
    \/ BrowserCreated
    \/ \E req \in PollRequests : HandleHTTPRequest(req)
    \/ \E shortened \in BOOLEAN : InactivityTimeout(shortened)
    \/ \E ms \in TickSteps : Tick(ms)

SpecPoll == Init /\ [][NextPoll]_vars

NextEvents ==
    \/ AfterConstruct
    \/ BrowserCreated
    \/ \E req \in EventRequests : HandleHTTPRequest(req)

SpecEvents == Init /\ [][NextEvents]_vars

(* Requests of every endpoint, navigation included, against a live session
   that completes downloads *)
NextCounters ==
    \/ AfterConstruct
    \/ BrowserCreated
    \/ \E req \in Requests : HandleHTTPRequest(req)
    \/ \E file \in Files : DownloadCompleted(file)

SpecCounters == Init /\ [][NextCounters]_vars

(* Producers enqueued and drained over the whole life of a session *)
NextIframe ==
    \/ AfterConstruct
    \/ BrowserCreated
    \/ Close
    \/ BrowserClosed
    \/ \E req \in IframeRequests : HandleHTTPRequest(req)
    \/ ClipboardButtonPressed
    \/ \E file \in Files : DownloadCompleted(file)

SpecIframe == Init /\ [][NextIframe]_vars

(* Resizing polls, cursor changes, queued producers and repaints *)
NextViewport ==
    \/ AfterConstruct
    \/ BrowserCreated
    \/ \E req \in ViewportRequests : HandleHTTPRequest(req)
    \/ ClipboardButtonPressed
    \/ \E cursor \in Cursors : CursorChanged(cursor)
    \/ ViewDirty

SpecViewport == Init /\ [][NextViewport]_vars

(* Requests of every endpoint against a live session whose queue and ledger
   fill while the clocks advance *)
NextReject ==
    \/ AfterConstruct
    \/ BrowserCreated
    \/ \E req \in RejectRequests : HandleHTTPRequest(req)
    \/ ClipboardButtonPressed
    \/ \E file \in Files : DownloadCompleted(file)
    \/ \E downloadIdx \in 1..MaxDownloads : DownloadTimeout(downloadIdx)
    \/ \E ms \in ExpiryTickSteps : Tick(ms)

SpecReject == Init /\ [][NextReject]_vars

(* The requests of the download specification: iframe polls that drain the
   producers, download requests of every index, and the endpoints that
   start a generation *)
LedgerRequests == IframeRequests \cup DownloadRequests

(* Downloads completed, announced, served and expired over the whole life
   of a session whose clock advances *)
NextDownload ==
    \/ AfterConstruct
    \/ BrowserCreated
    \/ Close
    \/ BrowserClosed
    \/ \E req \in LedgerRequests : HandleHTTPRequest(req)
    \/ \E file \in Files : DownloadCompleted(file)
    \/ \E downloadIdx \in 1..MaxDownloads : DownloadTimeout(downloadIdx)
    \/ \E ms \in TickSteps : Tick(ms)

SpecDownload == Init /\ [][NextDownload]_vars

(* The sessions of the process created, by the server and by popups of
   this session, and destroyed, while this session serves iframe polls *)
NextSessions ==
    \/ AfterConstruct
    \/ BrowserCreated
    \/ \E handlerAlive, serverFull \in BOOLEAN : \E draws \in Draws \cup {<<>>} :
          BeforePopup(handlerAlive, serverFull, draws)
    \/ \E draws \in Draws : SessionCreated(draws)
    \/ \E id \in SessionIDs : SessionDestroyed(id)
    \/ \E id \in SessionIDs : SessionIDReleased(id)
    \/ \E req \in {r \in IndexedRequests({0}) : r.kind = "iframe"} : HandleHTTPRequest(req)

SpecSessions == Init /\ [][NextSessions]_vars

(* Key and hotkey navigation on a session whose clocks advance in steps
   below and above the debounce interval *)
NextNavigate ==
    \/ AfterConstruct
    \/ BrowserCreated
    \/ \E backspace, editable, shift \in BOOLEAN : PreKeyEvent(backspace, editable, shift)
    \/ \E key \in Hotkeys : GlobalHotkeyPressed(key)
    \/ \E ms \in NavigateTickSteps : Tick(ms)

SpecNavigate == Init /\ [][NextNavigate]_vars

(* The requests of the liveness specification: the main page, and iframe
   polls and close requests, current and stale *)
LiveRequests == IframeRequests

(* TRUE iff handling req on s calls updateInactivityTimeout_ while the
   session is Pending or Open: handled with both timers clear, the request
   leaves one of them armed *)
rearms(s, req) ==
    LET clear == [s EXCEPT !.inactivityTimeoutLong_ = FALSE,
                           !.inactivityTimeoutShort_ = FALSE]
        after == handleHTTPRequest(clear, req)
    IN  after.inactivityTimeoutLong_ \/ after.inactivityTimeoutShort_

(* A request that restarts an inactivity timer *)
RearmingRequest ==
    \E req \in LiveRequests : rearms(Begin(Cur), req) /\ HandleHTTPRequest(req)

(* The whole life of a session that is closed by its owner or by its
   inactivity timers, while requests arrive *)
NextLive ==
    \/ AfterConstruct
    \/ Close
    \/ BrowserCreated
    \/ BrowserClosed
    \/ \E req \in LiveRequests : HandleHTTPRequest(req)
    \/ \E shortened \in BOOLEAN : InactivityTimeout(shortened)

(* Session::create runs afterConstruct_ right after the constructor; the
   browser reports its creation, and, once CloseBrowser has been called on
   it, its closing.  A browser that nobody closes may stay open. *)
SpecLive ==
    /\ Init
    /\ [][NextLive]_vars
    /\ WF_vars(AfterConstruct)
    /\ WF_vars(BrowserCreated)
    /\ WF_vars(state_ = Closing /\ BrowserClosed)

(* The requests of the navigation latch: the main page and the prev and
   next endpoints *)
LatchRequests == {r \in PlainRequests : r.kind \in {"main", "prev", "next"}}

(* Main page visits and prev/next requests on a session, before and after
   its browser exists, whose clocks advance in steps below and above the
   debounce interval *)
NextLatch ==
    \/ AfterConstruct
    \/ BrowserCreated
    \/ \E req \in LatchRequests : HandleHTTPRequest(req)
    \/ \E ms \in NavigateTickSteps : Tick(ms)

SpecLatch == Init /\ [][NextLatch]_vars

(* The files of the issuing specification *)
IssuedFiles == {"a", "b"}

(* The requests of the issuing specification: the iframe poll that runs the
   producers and download requests of every index that can be issued *)
IssueRequests ==
    {Req("GET", "iframe", 0, 0, 0, 0, 0, 0, <<>>, 0)}
        \cup {Req("GET", "download", 0, 0, 0, 0, 0, 0, <<>>, d) : d \in 0..MaxIssued}

(* Several downloads of different files completed, announced, requested
   and expired one after the other *)
NextIssue ==
    \/ AfterConstruct
    \/ \E file \in IssuedFiles : DownloadCompletedWithin(file, MaxIssued)
    \/ \E req \in IssueRequests : HandleHTTPRequest(req)
    \/ \E downloadIdx \in 1..MaxIssued : DownloadTimeout(downloadIdx)
    \/ \E ms \in ExpiryTickSteps : Tick(ms)

SpecIssue == Init /\ [][NextIssue]_vars

(* The requests of the first-poll specification: image polls of every
   generation and sequence number, zero included, and the requests that
   start a generation *)
FirstPollRequests ==
    ImageRequests(0..MaxMainIdx, 0..MaxImgIdx, {<<1, 801, 600>>}, {<<0, <<>> >>})
        \cup {r \in IndexedRequests(0..MaxMainIdx) : r.kind = "close"}
        \cup {r \in PlainRequests : r.kind = "main"}

(* Image polls over the generations of a session, from its construction
   to its end *)
NextFirstPoll ==
    \/ AfterConstruct
    \/ BrowserCreated
    \/ Close
    \/ BrowserClosed
    \/ \E req \in FirstPollRequests : HandleHTTPRequest(req)

SpecFirstPoll == Init /\ [][NextFirstPoll]_vars

(* Tokens that parse as an event and tokens that do not *)
ParseTokens == {<<"E", "/">>, <<"X", "/">>}

RECURSIVE ParseBatches(_)
ParseBatches(n) ==
    IF n = 0 THEN {<<>>}
    ELSE {<<>>} \cup {t \o b : t \in ParseTokens, b \in ParseBatches(n - 1)}

(* The requests of the parsing specification: image polls of the first
   generation whose batches mix tokens that parse and tokens that do not *)
ParseRequests ==
    ImageRequests({0}, 1..MaxImgIdx, {<<1, 801, 600>>},
                  {a \in (0..MaxEventIdx) \X ParseBatches(MaxBatch) :
                       a[1] + tokenCount(a[2]) <= MaxEventIdx})

(* Event batches with tokens that do not parse, sent and sent again *)
NextParse ==
    \/ AfterConstruct
    \/ BrowserCreated
    \/ \E req \in ParseRequests : HandleHTTPRequest(req)

SpecParse == Init /\ [][NextParse]_vars

----------------------------------------------------------------------------
(* Properties *)

(* The fields of the session and of its collaborators, without the
   per-operation observations (response, navCmd, stateTrail, eventTrail,
   effects) *)
sessionVars ==
    <<pc, state_, isPopup_, browser_, closeOnOpen_, curMainIdx_, curImgIdx_,
      curEventIdx_, curDownloadIdx_, preMainVisited_, prePrevVisited_,
      prevNextClicked_, iframeQueue_, downloads_, widthSignal_, heightSignal_,
      rootViewport_, paddedRootViewport_, inactivityTimeoutLong_,
      inactivityTimeoutShort_, sinceNavigate, sinceSecurity,
      closeBrowserCalls, dispatched, imageWaiting, frame, sessionClosedPosts,
      mainServed, requireFailed>>

(* The step answers an HTTP request *)
RequestStep == response' # NoResponse

(* The edges the last step took: consecutive values of state_ *)
EdgesTaken ==
    LET trail == <<state_>> \o stateTrail'
    IN  {<<trail[i], trail[i + 1]>> : i \in 1..(Len(trail) - 1)}

SpecEdges ==
    {<<Pending, Open>>, <<Open, Closing>>, <<Closing, Closed>>, <<Pending, Closed>>}

(* C4 as stated: every assignment to state_ follows one of the edges
   Pending->Open, Open->Closing, Closing->Closed, Pending->Closed. *)
C4_OnlySpecEdges == [][EdgesTaken \subseteq SpecEdges]_vars

(* C4 amended: every assignment to state_ follows one of the edges
   Pending->Open, Open->Closing, Closing->Closed, Pending->Closed, or
   Open->Closed (the handle-closed callback arriving while Open); nothing
   leaves Closed. *)
C4_EdgesWithOpenToClosed ==
    [][EdgesTaken \subseteq (SpecEdges \cup {<<Open, Closed>>})]_vars

(* C4 witness: the session reached Closed through Closing *)
C4_Witness == state_ = Closed /\ closeBrowserCalls = 1 /\ stateTrail = <<Closed>>

(* C5: between operations the browser handle is present iff the state is
   Open or Closing, and the REQUIRE(browser_) of close() has not failed. *)
C5_HandleIffOpenOrClosing ==
    /\ browser_ <=> (state_ = Open \/ state_ = Closing)
    /\ ~requireFailed

(* C5 witness: close() ran on an Open session with a handle *)
C5_Witness == state_ = Closing /\ browser_ /\ stateTrail = <<Closing>>

(* C9: a close() call tears the handle down only from Open, moving to
   Closing; from Pending it only sets closeOnOpen; from Closing or Closed it
   changes nothing; and CloseBrowser is called at most once per session. *)
C9_TeardownOnlyFromOpenAtMostOnce ==
    /\ [](pc = "running" =>
            LET before == Begin(Cur)
                after == close(before)
            IN  /\ state_ = Open
                      => /\ after.state_ = Closing
                         /\ after.closeBrowserCalls = closeBrowserCalls + 1
                /\ state_ = Pending
                      => after = [before EXCEPT !.closeOnOpen_ = TRUE]
                /\ (state_ = Closing \/ state_ = Closed)
                      => after = before
                /\ \A shortened \in BOOLEAN :
                      (IF shortened THEN inactivityTimeoutShort_ ELSE inactivityTimeoutLong_)
                        => LET fired == inactivityTimeoutReached(before, shortened)
                           IN  fired.closeBrowserCalls # closeBrowserCalls
                                  <=> state_ = Open)
    /\ [][ /\ closeBrowserCalls' <= 1
           /\ closeBrowserCalls' # closeBrowserCalls
                 => /\ closeBrowserCalls' = closeBrowserCalls + 1
                    /\ state_' = Closing
                    /\ stateTrail'[Len(stateTrail')] = Closing
                    /\ Len(stateTrail') = 1 => state_ = Open
         ]_vars

(* C9 witness: the teardown was issued from Open and an inactivity timer is
   still armed, so a later firing meets a Closing session *)
C9_Witness ==
    state_ = Closing /\ closeBrowserCalls = 1 /\ ~closeOnOpen_ /\ inactivityTimeoutLong_

(* C10: close() while Pending sets closeOnOpen, the ready callback then moves
   Pending -> Open -> Closing in one step, and no state between operations
   has state = Open with closeOnOpen set. *)
C10_NeverRestsInOpen ==
    /\ [](~(state_ = Open /\ closeOnOpen_))
    /\ [][ /\ (Close /\ state_ = Pending) => closeOnOpen_' /\ state_' = Pending
           /\ (BrowserCreated /\ closeOnOpen_)
                 => /\ stateTrail' = <<Open, Closing>>
                    /\ state_' = Closing
                    /\ closeBrowserCalls' = closeBrowserCalls + 1
         ]_vars

(* C10 witness: the ready callback found closeOnOpen set *)
C10_Witness == closeOnOpen_ /\ stateTrail = <<Open, Closing>>

(* C6 as stated: none of mainIdx, imgIdx, eventIdx, downloadIdx ever
   decreases. *)
C6_NoCounterDecreases ==
    [][ /\ curMainIdx_' >= curMainIdx_
        /\ curImgIdx_' >= curImgIdx_
        /\ curEventIdx_' >= curEventIdx_
        /\ curDownloadIdx_' >= curDownloadIdx_ ]_vars

(* C6 amended: mainIdx and downloadIdx never decrease; imgIdx and eventIdx
   never decrease while mainIdx is unchanged, and are reset to zero by the
   step that increments mainIdx (by exactly one). *)
C6_CountersMonotonicPerGeneration ==
    [][ /\ curMainIdx_' >= curMainIdx_
        /\ curDownloadIdx_' >= curDownloadIdx_
        /\ curMainIdx_' = curMainIdx_
              => curImgIdx_' >= curImgIdx_ /\ curEventIdx_' >= curEventIdx_
        /\ curMainIdx_' # curMainIdx_
              => /\ curMainIdx_' = curMainIdx_ + 1
                 /\ curImgIdx_' = 0
                 /\ curEventIdx_' = 0 ]_vars

(* C6 witness: a later generation in which all four counters have advanced *)
C6_Witness ==
    curMainIdx_ >= 1 /\ curImgIdx_ >= 1 /\ curEventIdx_ >= 1 /\ curDownloadIdx_ >= 1

(* The fields of the session other than the security status clock *)
listedVars ==
    <<pc, state_, isPopup_, browser_, closeOnOpen_, curMainIdx_, curImgIdx_,
      curEventIdx_, curDownloadIdx_, preMainVisited_, prePrevVisited_,
      prevNextClicked_, iframeQueue_, downloads_, widthSignal_, heightSignal_,
      rootViewport_, paddedRootViewport_, inactivityTimeoutLong_,
      inactivityTimeoutShort_, sinceNavigate,
      closeBrowserCalls, dispatched, imageWaiting, frame, sessionClosedPosts,
      mainServed, requireFailed>>

(* C7 as stated: a request answered 400 leaves the whole session state
   unchanged. *)
C7_RejectedRequestChangesNothing ==
    [][ response'.status = 400
          => /\ UNCHANGED sessionVars
             /\ eventTrail' = <<>>
             /\ navCmd' = "none" ]_vars

(* C7 amended: a request answered 400 leaves the lifecycle state, the
   counters, the flags, the iframe queue, the download ledger, the signals,
   the viewport and both inactivity timers unchanged, applies no event and
   issues no navigation command; the only field it may change is the
   security status clock, refreshed once 1000 ms have passed since the last
   refresh. *)
C7_RejectedRequestChangesOnlySecurityClock ==
    [][ response'.status = 400
          => /\ UNCHANGED listedVars
             /\ sinceSecurity' = IF sinceSecurity >= SecurityStatusRefreshMs
                                 THEN 0 ELSE sinceSecurity
             /\ eventTrail' = <<>>
             /\ stateTrail' = <<>>
             /\ navCmd' = "none" ]_vars

(* C7 witness: a request was answered 400 while the short timer was armed,
   a producer was queued and a download was in the ledger *)
C7_Witness ==
    /\ response.status = 400
    /\ inactivityTimeoutShort_
    /\ iframeQueue_ # <<>>
    /\ downloads_ # {}

(* C8: a Closing or Closed session answers every request with 503 and
   changes nothing: no event, no producer consumed, no download served, no
   counter or timer change. *)
C8_ClosedSessionAnswers503 ==
    [][ (RequestStep /\ (state_ = Closing \/ state_ = Closed))
          => /\ response' = [status |-> 503, body |-> "Browser session has been closed"]
             /\ UNCHANGED sessionVars
             /\ eventTrail' = <<>>
             /\ stateTrail' = <<>>
             /\ navCmd' = "none" ]_vars

(* C8 witness: a Closing session with a download in the ledger and a timer
   still armed answered 503 *)
C8_Witness ==
    /\ response.status = 503
    /\ state_ = Closing
    /\ downloads_ # {}
    /\ inactivityTimeoutLong_

(* The well-formed image polls among a set of requests *)
imagePolls(reqs) ==
    {r \in reqs : /\ r.kind = "image" /\ r.method = "GET"
                  /\ r.mainIdx # Overflow /\ r.imgIdx # Overflow
                  /\ r.width # Overflow /\ r.height # Overflow
                  /\ r.startEventIdx # Overflow}

(* C1 as stated: on a Pending or Open session an image poll is accepted iff
   its mainIdx is the current one and its imgIdx is greater than the last
   accepted one; acceptance sets imgIdx to the request's; a rejected poll is
   answered 400 and changes no session state. *)
C1_RejectedPollChangesNoState ==
    [][ RequestStep =>
        \A req \in imagePolls(PollRequests) :
            ((state_ = Pending \/ state_ = Open) /\ HandleHTTPRequest(req)) =>
                LET ok == req.mainIdx = curMainIdx_ /\ req.imgIdx > curImgIdx_
                IN  /\ ok <=> response'.status # 400
                    /\ ok => /\ curImgIdx_' = req.imgIdx
                             /\ response'.body \in {"image", "held"}
                    /\ ~ok => /\ response' = [status |-> 400, body |-> "Outdated request"]
                              /\ UNCHANGED sessionVars
                              /\ eventTrail' = <<>>
      ]_vars

(* The session after handling req in the current state *)
Outcome(req) == handleHTTPRequest(Begin(Cur), req)

(* The security status refresh that opens the handling of a request *)
refreshed(s) ==
    IF s.sinceSecurity >= SecurityStatusRefreshMs
    THEN [s EXCEPT !.sinceSecurity = 0]
    ELSE s

(* C1 amended: in every reachable Pending or Open state, an image poll is
   accepted iff its mainIdx is the current one and its imgIdx is greater
   than the last accepted one; acceptance sets imgIdx to the request's; a
   rejected poll is answered 400 and changes no session state other than
   the security status refresh (lastSecurityStatusUpdateTime_), which every
   request on a Pending or Open session performs once 1000 ms have passed
   since the last refresh. *)
C1_RejectedPollChangesOnlySecurityClock ==
    (pc = "running" /\ (state_ = Pending \/ state_ = Open)) =>
        \A req \in imagePolls(PollRequests) :
            LET ok == req.mainIdx = curMainIdx_ /\ req.imgIdx > curImgIdx_
                after == Outcome(req)
            IN  /\ ok <=> after.response.status # 400
                /\ ok => /\ after.curImgIdx_ = req.imgIdx
                         /\ after.response.body \in {"image", "held"}
                /\ ~ok => after = Respond(refreshed(Begin(Cur)), 400, "Outdated request")

(* C1 witness: after two accepted polls of one generation a poll was
   rejected as outdated *)
C1_Witness ==
    /\ curImgIdx_ = 2
    /\ response = [status |-> 400, body |-> "Outdated request"]
    /\ state_ = Open

(* C2: within one generation the sequence numbers handed to the widget
   layer are strictly increasing, so each is dispatched at most once. *)
C2_EachEventAtMostOnceInOrder ==
    \A i, j \in 1..Len(dispatched) : i < j => dispatched[i] < dispatched[j]

(* C2 witness: a second batch overlapped the first; its duplicate token was
   skipped and its new token applied *)
C2_Witness ==
    /\ dispatched = <<0, 1, 2>>
    /\ eventTrail = << <<1, FALSE>>, <<2, TRUE>> >>

(* The sequence numbers applied according to a trail *)
appliedOf(trail) ==
    LET sel == SelectSeq(trail, LAMBDA x : x[2])
    IN  [i \in 1..Len(sel) |-> sel[i][1]]

(* C3: in every reachable Pending or Open state, an accepted poll with
   startEventIdx s and n tokens, met with expectation e, leaves the
   expectation at max(e, s + n) and applies exactly the tokens
   max(e, s) .. s + n - 1, each once and in order; the events e .. s - 1 are
   not applied. *)
C3_BatchAppliesExactRange ==
    (pc = "running" /\ (state_ = Pending \/ state_ = Open)) =>
        \A req \in imagePolls(EventRequests) :
            (req.mainIdx = curMainIdx_ /\ req.imgIdx > curImgIdx_) =>
                LET after == Outcome(req)
                    e == curEventIdx_
                    s == req.startEventIdx
                    n == tokenCount(req.events)
                    first == Max(e, s)
                    count == Max(0, s + n - first)
                    now == appliedOf(after.eventTrail)
                IN  /\ after.curEventIdx_ = Max(e, s + n)
                    /\ Len(after.eventTrail) = n
                    /\ Len(now) = count
                    /\ \A i \in 1..count : now[i] = first + i - 1
                    /\ Len(after.dispatched) = Len(dispatched) + count
                    /\ \A i \in 1..Len(dispatched) : after.dispatched[i] = dispatched[i]
                    /\ \A i \in 1..count : after.dispatched[Len(dispatched) + i] = now[i]
                    /\ \A k \in e..(s - 1) :
                          \A i \in 1..Len(after.dispatched) : after.dispatched[i] # k

(* C3 witness: event 1 was lost; the batch starting at 2 was applied *)
C3_Witness == dispatched = <<0, 2>> /\ curEventIdx_ = 3

(* C11: the session-closed notification has been posted exactly once when
   the session is Closed (by the handle-closed callback or by a failed
   construction) and not at all otherwise; a Closed session has no handle
   and both inactivity timers disarmed. *)
C11_ClosedNotifiedExactlyOnce ==
    /\ sessionClosedPosts = (IF state_ = Closed THEN 1 ELSE 0)
    /\ state_ = Closed
          => ~browser_ /\ ~inactivityTimeoutLong_ /\ ~inactivityTimeoutShort_

(* C11 witness: the handle-closed callback closed a session that had served
   an image poll *)
C11_Witness ==
    /\ state_ = Closed
    /\ stateTrail = <<Closed>>
    /\ sessionClosedPosts = 1
    /\ curImgIdx_ >= 1

(* C12: a step that takes the session to Closing or Closed while the
   compressor holds an image request flushes the compressor, which answers
   that request, in the same step; no request is held while the session is
   Closing or Closed. *)
C12_TeardownFlushesHeldRequest ==
    /\ []((state_ = Closing \/ state_ = Closed) => ~imageWaiting)
    /\ [][ (/\ imageWaiting
            /\ state_' # state_
            /\ (state_' = Closing \/ state_' = Closed))
              => "heldAnswered" \in effects' /\ ~imageWaiting' ]_vars

(* C12 witness: close() on an Open session answered a held image request *)
C12_Witness ==
    /\ state_ = Closing
    /\ stateTrail = <<Closing>>
    /\ "heldAnswered" \in effects

(* The well-formed iframe polls among a set of requests *)
iframePolls(reqs) ==
    {r \in reqs : r.kind = "iframe" /\ r.method = "GET" /\ r.mainIdx # Overflow}

(* C13: on a Pending or Open session an iframe poll of the current
   generation removes the front producer of a non-empty queue and answers
   with it, and leaves an empty queue alone, answering OK; every step
   leaves the queue, appends one producer at its back, or removes its front
   producer, so producers are invoked in the order they were enqueued and
   each at most once. *)
C13_IframePollServesFrontProducer ==
    /\ []((pc = "running" /\ (state_ = Pending \/ state_ = Open)) =>
            \A req \in iframePolls(IframeRequests) :
                req.mainIdx = curMainIdx_ =>
                    LET after == Outcome(req)
                    IN  IF iframeQueue_ = <<>>
                        THEN after = Respond(refreshed(Begin(Cur)), 200, "OK")
                        ELSE /\ after.iframeQueue_ = Tail(iframeQueue_)
                             /\ after.response.status = 200
                             /\ after.response.body =
                                   (IF Head(iframeQueue_).kind = "download"
                                    THEN "downloadIframe" ELSE "clipboardIframe")
                             /\ Head(iframeQueue_).kind = "download"
                                   => after.downloads_ = downloads_ \cup
                                        {<<curDownloadIdx_ + 1, Head(iframeQueue_).file, 0>>})
    /\ [][ \/ iframeQueue_' = iframeQueue_
           \/ /\ iframeQueue_ # <<>>
              /\ iframeQueue_' = Tail(iframeQueue_)
              /\ response'.body \in {"downloadIframe", "clipboardIframe"}
           \/ /\ Len(iframeQueue_') = Len(iframeQueue_) + 1
              /\ SubSeq(iframeQueue_', 1, Len(iframeQueue_)) = iframeQueue_
              /\ response' = NoResponse ]_vars

(* C13 witness: the clipboard producer was enqueued before a download
   producer, and the poll invoked the clipboard producer and left the
   download producer queued *)
C13_Witness ==
    /\ response = [status |-> 200, body |-> "clipboardIframe"]
    /\ iframeQueue_ = <<DownloadIframe("a")>>

(* C14: between operations the width signal is the iframe-pending value
   iff the iframe queue is non-empty and the no-iframe value otherwise; the
   step that fills an empty queue and the step that drains the queue each
   hand a frame with the new signal to the compressor. *)
C14_WidthSignalIffQueueNonEmpty ==
    /\ [](widthSignal_ = (IF iframeQueue_ # <<>>
                          THEN WidthSignalNewIframe
                          ELSE WidthSignalNoNewIframe))
    /\ [][ (iframeQueue_ = <<>>) # (iframeQueue_' = <<>>)
              => /\ widthSignal_' # widthSignal_
                 /\ "updateImage" \in effects'
                 /\ frame'[1] % WidthSignalModulus = widthSignal_' ]_vars

(* C14 witness: an iframe poll drained the last producer and the signal is
   back at the no-iframe value *)
C14_Witness ==
    /\ response.body \in {"clipboardIframe", "downloadIframe"}
    /\ iframeQueue_ = <<>>
    /\ widthSignal_ = WidthSignalNoNewIframe
    /\ "updateImage" \in effects

(* size is the largest value <= padded that is congruent to signal *)
largestCongruent(size, padded, modulus, signal) ==
    /\ size <= padded
    /\ size % modulus = signal
    /\ \A larger \in (size + 1)..padded : larger % modulus # signal

(* C15: every frame handed to the compressor has the largest width <= the
   padded width that is congruent to widthSignal and the largest height <=
   the padded height that is congruent to heightSignal, hence lies between
   the logical size and the logical size + modulus - 1; the signals stay
   inside [0, modulus), heightSignal inside [0, CursorTypeCount), and no
   REQUIRE fails. *)
C15_FrameEncodesSignals ==
    /\ [](/\ widthSignal_ \in 0..(WidthSignalModulus - 1)
          /\ heightSignal_ \in 0..(CursorTypeCount - 1)
          /\ heightSignal_ < HeightSignalModulus
          /\ ~requireFailed)
    /\ [][ "updateImage" \in effects'
              => /\ largestCongruent(frame'[1], paddedRootViewport_'[1],
                                     WidthSignalModulus, widthSignal_')
                 /\ largestCongruent(frame'[2], paddedRootViewport_'[2],
                                     HeightSignalModulus, heightSignal_')
                 /\ rootViewport_'[1] <= frame'[1]
                 /\ frame'[1] <= rootViewport_'[1] + WidthSignalModulus - 1
                 /\ rootViewport_'[2] <= frame'[2]
                 /\ frame'[2] <= rootViewport_'[2] + HeightSignalModulus - 1 ]_vars

(* C15 witness: a frame was delivered with both signals non-zero from a
   viewport other than the initial one *)
C15_Witness ==
    /\ "updateImage" \in effects
    /\ widthSignal_ = WidthSignalNewIframe
    /\ heightSignal_ = TextCursor
    /\ rootViewport_ = <<64, 4096>>
    /\ frame = <<65, 4098>>

(* The frame the session would deliver with the given signals *)
frameWith(ws, hs) ==
    sendViewportToCompressor_([Cur EXCEPT !.widthSignal_ = ws,
                                          !.heightSignal_ = hs]).frame

(* C16 as stated: with moduli 4 and 8 and a viewport of 801x600, for every
   widthSignal and heightSignal the delivered frame has width congruent to
   widthSignal mod 4 and height congruent to heightSignal mod 8, with width
   in [800, 804) and height in [600, 608). *)
C16_Frame801x600WidthFrom800 ==
    (WidthSignalModulus = 4 /\ HeightSignalModulus = 8 /\ rootViewport_ = <<801, 600>>) =>
        \A ws \in 0..3, hs \in 0..7 :
            /\ frameWith(ws, hs)[1] % 4 = ws
            /\ frameWith(ws, hs)[2] % 8 = hs
            /\ frameWith(ws, hs)[1] \in 800..803
            /\ frameWith(ws, hs)[2] \in 600..607

(* C16 amended: with moduli 4 and 8 and a viewport of 801x600, for every
   widthSignal and heightSignal the delivered frame has width congruent to
   widthSignal mod 4 and height congruent to heightSignal mod 8, with width
   in [801, 805) and height in [600, 608). *)
C16_Frame801x600WidthFrom801 ==
    (WidthSignalModulus = 4 /\ HeightSignalModulus = 8 /\ rootViewport_ = <<801, 600>>) =>
        \A ws \in 0..3, hs \in 0..7 :
            /\ frameWith(ws, hs)[1] % 4 = ws
            /\ frameWith(ws, hs)[2] % 8 = hs
            /\ frameWith(ws, hs)[1] \in 801..804
            /\ frameWith(ws, hs)[2] \in 600..607

(* C16 witness: with a viewport of 801x600 and no iframe pending a frame of
   width 804 was delivered *)
C16_Witness ==
    /\ rootViewport_ = <<801, 600>>
    /\ "updateImage" \in effects
    /\ widthSignal_ = WidthSignalNoNewIframe
    /\ frame = <<804, 601>>

(* min(max(x, 64), 4096) *)
clamped(x) == Min(Max(x, MinViewportSize), MaxViewportSize)

(* C17: in every reachable state the padded buffer is the logical viewport
   plus modulus - 1 in each dimension, starting from 800x600; an accepted
   image poll requesting w x h leaves the logical viewport at
   min(max(w, 64), 4096) x min(max(h, 64), 4096) and allocates a buffer iff
   that size differs from the current one. *)
C17_ViewportClampedAndPadded ==
    /\ paddedRootViewport_ = << rootViewport_[1] + WidthSignalModulus - 1,
                                rootViewport_[2] + HeightSignalModulus - 1 >>
    /\ pc = "constructed" => rootViewport_ = <<800, 600>>
    /\ (pc = "running" /\ (state_ = Pending \/ state_ = Open)) =>
          \A req \in imagePolls(ViewportRequests) :
              (req.mainIdx = curMainIdx_ /\ req.imgIdx > curImgIdx_) =>
                  LET after == Outcome(req)
                      size == <<clamped(req.width), clamped(req.height)>>
                  IN  /\ after.rootViewport_ = size
                      /\ after.paddedRootViewport_ =
                            << size[1] + WidthSignalModulus - 1,
                               size[2] + HeightSignalModulus - 1 >>
                      /\ "createImage" \in after.effects <=> size # rootViewport_

(* C17 witness: a poll asking for 63x4097 was accepted on a 64x4096
   viewport and no buffer was allocated *)
C17_Witness ==
    /\ response = [status |-> 200, body |-> "image"]
    /\ curImgIdx_ = 2
    /\ rootViewport_ = <<64, 4096>>
    /\ paddedRootViewport_ = <<67, 4103>>
    /\ "createImage" \notin effects

(* The main-page request *)
mainRequest == Req("GET", "main", 0, 0, 0, 0, 0, 0, <<>>, 0)

(* The well-formed requests that carry a mainIdx *)
generationRequests(reqs) ==
    imagePolls(reqs) \cup
    {r \in reqs : /\ r.kind \in {"iframe", "close"}
                  /\ r.method = "GET" /\ r.mainIdx # Overflow}

(* C18: on a Pending or Open session the first main-page request serves the
   bootstrap page, sets preMainVisited and changes no counter; every later
   one increments mainIdx by one and resets imgIdx and eventIdx to zero;
   mainIdx never decreases and every image, iframe or close request
   carrying an earlier mainIdx is answered 400. *)
C18_MainPageStartsGeneration ==
    /\ []((pc = "running" /\ (state_ = Pending \/ state_ = Open)) =>
            LET after == Outcome(mainRequest)
            IN  /\ after.response.status = 200
                /\ after.preMainVisited_
                /\ ~preMainVisited_
                      => /\ after.response.body = "preMain"
                         /\ after.curMainIdx_ = curMainIdx_
                         /\ after.curImgIdx_ = curImgIdx_
                         /\ after.curEventIdx_ = curEventIdx_
                         /\ after.curDownloadIdx_ = curDownloadIdx_
                /\ preMainVisited_
                      => /\ after.response.body = "main"
                         /\ after.curMainIdx_ = curMainIdx_ + 1
                         /\ after.curImgIdx_ = 0
                         /\ after.curEventIdx_ = 0
                /\ \A req \in generationRequests(PollRequests) :
                      req.mainIdx < curMainIdx_
                        => Outcome(req).response =
                             [status |-> 400, body |-> "Outdated request"])
    /\ [][curMainIdx_' >= curMainIdx_]_vars

(* C18 witness: after polls of the first generation a continuation visit
   started the second one *)
C18_Witness ==
    /\ response = [status |-> 200, body |-> "main"]
    /\ curMainIdx_ = 2
    /\ curImgIdx_ = 0
    /\ state_ = Open

(* C19 as stated: a continuation visit to the main page requests a reload
   only when it is not the first continuation load of the session and no
   prev/next navigation was recorded since the previous one, and does
   request it then (given a handle and a navigation clock past the
   debounce); in particular the first continuation load never requests a
   reload. *)
C19_ReloadOnlyAfterFirstContinuation ==
    [][ response'.body = "main"
          => /\ navCmd' = "Reload" => (mainServed /\ ~prevNextClicked_)
             /\ (/\ mainServed /\ ~prevNextClicked_
                 /\ browser_ /\ sinceNavigate > NavigateDebounceMs)
                   => navCmd' = "Reload" ]_vars

(* C19 witness: a continuation load that took the session to generation 2
   requested a reload *)
C19_Witness ==
    /\ response = [status |-> 200, body |-> "main"]
    /\ navCmd = "Reload"
    /\ curMainIdx_ = 2
    /\ ~prePrevVisited_
    /\ inactivityTimeoutLong_

(* C20: a back or forward navigation is requested only by the prev or next
   endpoint, only when mainIdx > 0 and no navigation has been recorded
   since the last continuation visit, and it records itself; the record is
   cleared only by a continuation visit, so at most one such navigation
   falls between two continuation visits and none while mainIdx = 0.  The
   prev endpoint serves its bootstrap page on its first visit and the
   continuation page afterwards. *)
C20_OneNavigationPerGeneration ==
    [][ /\ navCmd' \in {"GoBack", "GoForward"}
              => /\ curMainIdx_ > 0
                 /\ ~prevNextClicked_
                 /\ prevNextClicked_'
                 /\ navCmd' = "GoBack" <=> response'.body \in {"prev", "prePrev"}
                 /\ navCmd' = "GoForward" <=> response'.body = "next"
        /\ (prevNextClicked_ /\ ~prevNextClicked_') => response'.body = "main"
        /\ response'.body \in {"prev", "prePrev", "next"}
              => /\ curMainIdx_' = curMainIdx_
                 /\ prevNextClicked_' = (prevNextClicked_ \/ curMainIdx_ > 0)
        /\ response'.body \in {"prev", "prePrev"}
              => /\ response'.body = "prePrev" <=> ~prePrevVisited_
                 /\ prePrevVisited_' ]_vars

(* C20 witness: the next endpoint requested a forward navigation on a
   session that had served the prev bootstrap page *)
C20_Witness ==
    /\ response = [status |-> 200, body |-> "next"]
    /\ navCmd = "GoForward"
    /\ prevNextClicked_
    /\ prePrevVisited_


(* The well-formed close requests among a set of requests *)
closeRequests(reqs) ==
    {r \in reqs : r.method = "GET" /\ r.kind = "close" /\ parseString(r.mainIdx) # None}

(* C21: on a Pending or Open session a close request is accepted only when
   its mainIdx equals the current one; acceptance answers 200, increments
   mainIdx by one, resets imgIdx and eventIdx to zero, clears the long
   inactivity timer and arms the short one, and leaves the session state
   as it was; the same request sent again is answered 400 and changes
   nothing.  A close request of any other generation is answered 400 and
   moves neither the counters nor the timers. *)
C21_CloseEndpointInvalidatesGeneration ==
    (pc = "running" /\ (state_ = Pending \/ state_ = Open))
        => \A req \in closeRequests(Requests) :
              LET after == Outcome(req)
                  again == handleHTTPRequest(Begin(after), req)
              IN  IF req.mainIdx = curMainIdx_
                  THEN /\ after.response = [status |-> 200, body |-> "OK"]
                       /\ after.curMainIdx_ = curMainIdx_ + 1
                       /\ after.curImgIdx_ = 0
                       /\ after.curEventIdx_ = 0
                       /\ ~after.inactivityTimeoutLong_
                       /\ after.inactivityTimeoutShort_
                       /\ after.state_ = state_
                       /\ after.stateTrail = <<>>
                       /\ again = Respond(Begin(after), 400, "Outdated request")
                  ELSE /\ after.response = [status |-> 400, body |-> "Outdated request"]
                       /\ after.curMainIdx_ = curMainIdx_
                       /\ after.curImgIdx_ = curImgIdx_
                       /\ after.curEventIdx_ = curEventIdx_
                       /\ after.inactivityTimeoutLong_ = inactivityTimeoutLong_
                       /\ after.inactivityTimeoutShort_ = inactivityTimeoutShort_

(* C21 witness: the close request of generation 1 was accepted after an
   image poll of that generation: the session is at generation 2 with the
   image counter back at zero and only the short timer armed *)
C21_Witness ==
    /\ response = [status |-> 200, body |-> "OK"]
    /\ curMainIdx_ = 2
    /\ curImgIdx_ = 0
    /\ inactivityTimeoutShort_
    /\ ~inactivityTimeoutLong_
    /\ state_ = Open


(* back, reload, forward *)
Directions == {-1, 0, 1}

(* The handle command of a direction *)
command(direction) ==
    CASE direction = -1 -> "GoBack"
      [] direction = 0 -> "Reload"
      [] direction = 1 -> "GoForward"

(* C22: with the clocks in integer milliseconds, a navigation trigger on an
   Open session is forwarded to the handle exactly when more than 200 ms
   have passed since the previous navigation operation (the clock starts at
   construction), and a forwarded trigger restarts that interval.  After a
   forwarded trigger a second trigger 50 ms later sends no command, so the
   pair sends exactly one; a second trigger 300 ms later sends its command,
   so the pair sends two.  No step sends a command inside the interval. *)
C22_NavigationDebounced ==
    /\ [] ( (pc = "running" /\ state_ = Open)
              => \A d1, d2 \in Directions :
                    LET first == navigate_(Begin(Cur), d1)
                        near == navigate_(Begin(elapse(first, 50)), d2)
                        far == navigate_(Begin(elapse(first, 300)), d2)
                    IN  /\ first.navCmd # "none" <=> sinceNavigate > NavigateDebounceMs
                        /\ first.navCmd # "none"
                              => /\ first.navCmd = command(d1)
                                 /\ near.navCmd = "none"
                                 /\ far.navCmd = command(d2) )
    /\ [][ navCmd' # "none"
              => /\ sinceNavigate > NavigateDebounceMs
                 /\ sinceNavigate' = 0
                 /\ browser_ ]_vars

(* C22 witness: on an Open session a trigger that came 50 ms after a
   forwarded command was suppressed *)
C22_Witness ==
    /\ state_ = Open
    /\ "debounced" \in effects
    /\ navCmd = "none"
    /\ sinceNavigate = 50
    /\ sinceSecurity >= 300


(* C23: in every reachable state at most one of the long and the short
   inactivity timer is armed, and in the Closed state neither is; a step
   that arms one of them leaves the other one cleared. *)
C23_InactivityTimersExclusive ==
    /\ [] ( /\ ~(inactivityTimeoutLong_ /\ inactivityTimeoutShort_)
            /\ state_ = Closed
                  => ~inactivityTimeoutLong_ /\ ~inactivityTimeoutShort_ )
    /\ [][ /\ (inactivityTimeoutShort_' /\ ~inactivityTimeoutShort_)
                 => ~inactivityTimeoutLong_'
           /\ (inactivityTimeoutLong_' /\ ~inactivityTimeoutLong_)
                 => ~inactivityTimeoutShort_' ]_vars

(* C23 witness: a session that served requests of a later generation with
   a timer armed was reported closed by the browser: it is Closed with no
   timer armed *)
C23_Witness ==
    /\ state_ = Closed
    /\ stateTrail = <<Closed>>
    /\ curMainIdx_ >= 1
    /\ closeBrowserCalls = 0
    /\ ~inactivityTimeoutLong_
    /\ ~inactivityTimeoutShort_


(* C24 as stated: on a session that accepts requests, every request that is
   not answered 400 and is not a close request leaves the short timer
   cleared and the long inactivity timer armed. *)
C24_EveryAcceptedRequestRearmsLong ==
    (pc = "running" /\ (state_ = Pending \/ state_ = Open))
        => \A req \in Requests :
              LET after == Outcome(req)
              IN  (after.response.status # 400 /\ req.kind # "close")
                     => after.inactivityTimeoutLong_ /\ ~after.inactivityTimeoutShort_

(* C24 amended: an accepted image poll, an accepted iframe poll that finds
   a producer queued, and every main, prev and next request leave the short
   timer cleared and the long inactivity timer armed; an accepted iframe
   poll that finds the queue empty and a served download leave both timers
   as they were. *)
C24_RequestsThatRearmLong ==
    (pc = "running" /\ (state_ = Pending \/ state_ = Open))
        => \A req \in Requests :
              LET after == Outcome(req)
                  passive == \/ req.kind = "download"
                             \/ req.kind = "iframe" /\ iframeQueue_ = <<>>
              IN  (after.response.status # 400 /\ req.kind # "close")
                     => IF passive
                        THEN /\ after.inactivityTimeoutLong_ = inactivityTimeoutLong_
                             /\ after.inactivityTimeoutShort_ = inactivityTimeoutShort_
                        ELSE /\ after.inactivityTimeoutLong_
                             /\ ~after.inactivityTimeoutShort_

(* C24 witness: a download was served while the short timer, armed by a
   close request, stayed armed *)
C24_Witness ==
    /\ response = [status |-> 200, body |-> "file"]
    /\ inactivityTimeoutShort_
    /\ ~inactivityTimeoutLong_


(* C25: when an armed inactivity timer fires, the session is closed exactly
   if it is Pending or Open: an Open session starts its teardown (Closing,
   one CloseBrowser call), a Pending one records the deferred close; a
   timer that fires while the session is Closing or Closed consumes the
   timer and changes nothing else, so no second teardown is issued. *)
C25_TimerClosesOnlyLiveSession ==
    pc = "running"
        => \A shortened \in BOOLEAN :
              (IF shortened THEN inactivityTimeoutShort_ ELSE inactivityTimeoutLong_)
                 => LET fired == IF shortened
                                 THEN [Begin(Cur) EXCEPT !.inactivityTimeoutShort_ = FALSE]
                                 ELSE [Begin(Cur) EXCEPT !.inactivityTimeoutLong_ = FALSE]
                        after == inactivityTimeoutReached(Begin(Cur), shortened)
                    IN  CASE state_ = Open ->
                               /\ after.state_ = Closing
                               /\ after.stateTrail = <<Closing>>
                               /\ after.closeBrowserCalls = closeBrowserCalls + 1
                          [] state_ = Pending ->
                               /\ after = [fired EXCEPT !.closeOnOpen_ = TRUE]
                          [] OTHER ->
                               /\ after = fired
                               /\ after.closeBrowserCalls = closeBrowserCalls

(* C25 witness: the timer that close() left armed fired while the session
   was Closing: both timers are clear, the session is still Closing and the
   handle was told to close once *)
C25_Witness ==
    /\ state_ = Closing
    /\ stateTrail = <<>>
    /\ response = NoResponse
    /\ ~inactivityTimeoutLong_
    /\ ~inactivityTimeoutShort_
    /\ closeBrowserCalls = 1


(* C26: the expiry timer of a ledger entry runs from the creation of the
   entry and is never restarted: a download request to a session that
   accepts requests, served or rejected, leaves every entry and the time
   elapsed on its timer as they were; while
   an entry stays in the ledger its elapsed time only grows, and an entry
   leaves the ledger only when the full time-to-live has elapsed; no entry
   outlives its time-to-live, and a download request for an index that was
   issued and has expired is answered 400. *)
C26_DownloadExpiresAtFixedTime ==
    /\ [] ( /\ \A d \in downloads_ : d[3] <= DownloadTTL
            /\ (pc = "running" /\ (state_ = Pending \/ state_ = Open))
                  => \A req \in DownloadRequests :
                        LET after == Outcome(req)
                        IN  /\ after.downloads_ = downloads_
                            /\ ( /\ req.downloadIdx \in 1..curDownloadIdx_
                                 /\ ~hasDownload(Cur, req.downloadIdx) )
                                  => after.response =
                                        [status |-> 400, body |-> "Outdated download index"] )
    /\ [][ \A d \in downloads_ :
              \/ \E e \in downloads_' : e[1] = d[1] /\ e[2] = d[2] /\ e[3] >= d[3]
              \/ /\ d[3] = DownloadTTL
                 /\ \A e \in downloads_' : e[1] # d[1] ]_vars

(* C26 witness: the download of index 1 was announced, its time-to-live ran
   out and removed it, and a request for it was then answered 400 *)
C26_Witness ==
    /\ response = [status |-> 400, body |-> "Outdated download index"]
    /\ curDownloadIdx_ = 1
    /\ downloads_ = {}


(* The iframe poll of the current generation *)
iframePoll == Req("GET", "iframe", curMainIdx_, 0, 0, 0, 0, 0, <<>>, 0)

(* C27 as stated: the completion of a download increments downloadIdx,
   registers the file in the ledger under the new index with a fresh expiry
   timer, and appends one producer to the iframe queue. *)
C27_CompletionRegistersDownload ==
    pc = "running"
        => \A file \in Files :
              LET after == onDownloadCompleted(Begin(Cur), file)
              IN  /\ after.curDownloadIdx_ = curDownloadIdx_ + 1
                  /\ <<curDownloadIdx_ + 1, file, 0>> \in after.downloads_
                  /\ after.iframeQueue_ = Append(iframeQueue_, DownloadIframe(file))

(* C27 amended: the completion of a download appends one producer that
   holds the file to the iframe queue and leaves downloadIdx and the ledger
   as they were; the iframe poll that drains that producer increments
   downloadIdx, registers the file under the new index with a fresh expiry
   timer and answers with the page that refers to it. *)
C27_DrainRegistersDownload ==
    pc = "running"
        => /\ \A file \in Files :
                 LET after == onDownloadCompleted(Begin(Cur), file)
                 IN  /\ after.iframeQueue_ = Append(iframeQueue_, DownloadIframe(file))
                     /\ after.curDownloadIdx_ = curDownloadIdx_
                     /\ after.downloads_ = downloads_
           /\ ( /\ state_ = Pending \/ state_ = Open
                /\ iframeQueue_ # <<>>
                /\ Head(iframeQueue_).kind = "download" )
                 => LET after == Outcome(iframePoll)
                    IN  /\ after.response = [status |-> 200, body |-> "downloadIframe"]
                        /\ after.curDownloadIdx_ = curDownloadIdx_ + 1
                        /\ after.downloads_ = downloads_ \cup
                              {<<curDownloadIdx_ + 1, Head(iframeQueue_).file, 0>>}
                        /\ after.iframeQueue_ = Tail(iframeQueue_)

(* C27 witness: a download has completed and its producer is queued, while
   downloadIdx is still zero and the ledger is empty *)
C27_Witness ==
    /\ iframeQueue_ = <<DownloadIframe("a")>>
    /\ response = NoResponse
    /\ curDownloadIdx_ = 0
    /\ downloads_ = {}


(* C28: on a session that accepts requests, a download request whose index
   is in the ledger is served the stored file, as often as it is sent, and
   changes nothing of the session but the security clock: the ledger and
   every counter stay as they were; a request for an index that is not in
   the ledger, never issued or expired, is answered 400 and changes as
   little.  The answer is the same whatever the generation of the session
   and of the request.  A Closing or Closed session answers 503. *)
C28_DownloadServedByIndexOnly ==
    pc = "running"
        => \A req \in {r \in DownloadRequests : parseString(r.downloadIdx) # None} :
              LET after == Outcome(req)
                  again == handleHTTPRequest(Begin(after), req)
              IN  IF sessionClosed(Cur)
                  THEN after.response.status = 503
                  ELSE /\ after = Respond(refreshed(Begin(Cur)),
                                          IF hasDownload(Cur, req.downloadIdx) THEN 200 ELSE 400,
                                          IF hasDownload(Cur, req.downloadIdx)
                                          THEN "file" ELSE "Outdated download index")
                       /\ again = after
                       /\ \A m \in 0..MaxMainIdx :
                             /\ Outcome([req EXCEPT !.mainIdx = m]) = after
                             /\ handleHTTPRequest([Begin(Cur) EXCEPT !.curMainIdx_ = m], req).response
                                   = after.response

(* C28 witness: the file of download 1 was served to a session that had
   moved on to a later generation, and the entry is still in the ledger *)
C28_Witness ==
    /\ response = [status |-> 200, body |-> "file"]
    /\ curMainIdx_ >= 1
    /\ hasDownload(Cur, 1)
    /\ curDownloadIdx_ = 1


(* C29: no two session objects alive at the same time have the same id,
   and the id of a live session is in the set of ids in use; the id a
   constructor takes was not in that set before and is in it afterwards;
   an id leaves the set only when no live session holds it, that is after
   the session that held it was destroyed. *)
C29_LiveSessionIDsUnique ==
    /\ [] ( \A id \in SessionIDs :
               /\ liveSessions[id] <= 1
               /\ liveSessions[id] > 0 => id \in usedSessionIDs )
    /\ [][ \A id \in SessionIDs :
              /\ liveSessions'[id] > liveSessions[id]
                    => id \notin usedSessionIDs /\ id \in usedSessionIDs'
              /\ (id \in usedSessionIDs /\ id \notin usedSessionIDs')
                    => liveSessions[id] = 0 /\ liveSessions'[id] = 0 ]_vars

(* C29 witness: a session was constructed while the id of a destroyed
   session was still reserved, and while another session was alive: the
   new session holds a third id *)
C29_Witness ==
    /\ Len(createdSessions) = 1
    /\ \E gone, other \in usedSessionIDs \ {createdSessions[1].id} :
          /\ gone # other
          /\ liveSessions[gone] = 0
          /\ liveSessions[other] = 1
    /\ liveSessions[createdSessions[1].id] = 1

(* C30: a popup request that arrives while the event handler reports the
   server full is cancelled: no session is created, nothing is announced,
   the iframe queue and the ids in use stay as they were.  Otherwise, with
   a live event handler, exactly one session is created, a popup in the
   Pending state under an id that was not in use; exactly that session is
   announced to the event handler, exactly one producer referring to its
   id is appended to the iframe queue of the parent, and the popup is let
   through. *)
C30_PopupCreatedUnlessServerFull ==
    (pc = "running" /\ browser_)
        => /\ OnBeforePopup(Begin(Cur), BeginProcess(Process), TRUE, TRUE, <<>>)
                 = [session |-> [Begin(Cur) EXCEPT !.effects = {"popupCancelled"}],
                    process |-> BeginProcess(Process)]
           /\ \A draws \in {d \in Draws : endsLoop(d)} :
              LET opened == OnBeforePopup(Begin(Cur), BeginProcess(Process),
                                          TRUE, FALSE, draws)
                  sessions == opened.process
              IN  /\ Len(sessions.createdSessions) = 1
                  /\ LET popup == sessions.createdSessions[1]
                     IN  /\ popup.isPopup_
                         /\ popup.state_ = Pending
                         /\ popup.id \notin usedSessionIDs
                         /\ sessions.usedSessionIDs = usedSessionIDs \cup {popup.id}
                         /\ sessions.liveSessions[popup.id] = liveSessions[popup.id] + 1
                         /\ sessions.announcedSessions = <<popup.id>>
                         /\ opened.session.iframeQueue_
                                = Append(iframeQueue_, PopupIframe(popup.id))
                         /\ "popupAllowed" \in opened.session.effects
                         /\ "popupCancelled" \notin opened.session.effects

(* C30 witness: a popup was opened while a producer was already queued: its
   session was created and announced and its producer is the last of the
   parent's queue *)
C30_Witness ==
    /\ "popupAllowed" \in effects
    /\ Len(createdSessions) = 1
    /\ createdSessions[1].isPopup_
    /\ announcedSessions = <<createdSessions[1].id>>
    /\ Len(iframeQueue_) = 2
    /\ iframeQueue_[2] = PopupIframe(createdSessions[1].id)

(* An armed inactivity timer that is not restarted fires *)
TimersFire ==
    /\ WF_vars(InactivityTimeout(FALSE))
    /\ WF_vars(InactivityTimeout(TRUE))

(* C31: in every state of a running session that is Pending or Open,
   exactly one inactivity timer is armed or closeOnOpen_ is set.  If armed
   timers fire and from some point on no request restarts a timer, then a
   Pending or Open session eventually has close() invoked on it (it is
   Closing or Closed, or closeOnOpen_ is set), and, the browser reporting
   its creation and its closing, the session eventually is Closed. *)
C31_IdleSessionEventuallyClosed ==
    /\ [] ( (pc = "running" /\ state_ \in {Pending, Open})
               => \/ inactivityTimeoutLong_ # inactivityTimeoutShort_
                  \/ closeOnOpen_ )
    /\ (TimersFire /\ <>[][~RearmingRequest]_vars)
          => /\ <>(closeOnOpen_ \/ state_ \in {Closing, Closed})
             /\ <>(state_ = Closed)

(* C31 witness: the timer of a Pending session has fired: no timer is
   armed, the close is deferred to the creation of the browser *)
C31_Witness ==
    /\ pc = "running"
    /\ state_ = Pending
    /\ closeOnOpen_
    /\ ~inactivityTimeoutLong_
    /\ ~inactivityTimeoutShort_

(* C32: closeOnOpen_, once set, is never cleared.  A Pending session with
   closeOnOpen_ set answers every request as it would with closeOnOpen_
   clear, never with 503; the main page arms the long inactivity timer and
   a close request of the current generation the short one; and whatever
   requests it has accepted, OnAfterCreated moves it through Open to
   Closing and calls CloseBrowser once. *)
C32_DeferredCloseSurvivesRequests ==
    /\ [][closeOnOpen_ => closeOnOpen_']_vars
    /\ [] ( (pc = "running" /\ state_ = Pending /\ closeOnOpen_)
               => /\ \A req \in LifecycleRequests :
                        /\ Outcome(req).response.status # 503
                        /\ Outcome(req)
                              = [handleHTTPRequest([Begin(Cur) EXCEPT !.closeOnOpen_ = FALSE], req)
                                   EXCEPT !.closeOnOpen_ = TRUE]
                        /\ Outcome(req).state_ = Pending
                  /\ Outcome(mainRequest).inactivityTimeoutLong_
                  /\ Outcome(Req("GET", "close", curMainIdx_, 0, 0, 0, 0, 0, <<>>, 0))
                        .inactivityTimeoutShort_
                  /\ LET ready == OnAfterCreated(Begin(Cur))
                     IN  /\ ready.stateTrail = <<Open, Closing>>
                         /\ ready.state_ = Closing
                         /\ ready.closeBrowserCalls = closeBrowserCalls + 1
                         /\ ready.closeOnOpen_ )

(* C32 witness: a Pending session whose close is deferred has just served
   the main page and armed its long timer *)
C32_Witness ==
    /\ pc = "running"
    /\ state_ = Pending
    /\ closeOnOpen_
    /\ response.status = 200
    /\ curMainIdx_ >= 1
    /\ inactivityTimeoutLong_

(* The prev and next requests *)
prevNextRequests == {r \in PlainRequests : r.kind \in {"prev", "next"}}

(* C33: on a session that accepts requests, a prev or next request that
   finds mainIdx > 0 and prevNextClicked_ clear sets prevNextClicked_,
   whether or not a command reaches the browser.  A command is issued iff
   the browser exists and more than 200 ms have passed since the last
   navigation.  When none is issued, no prev or next request that follows
   in the same cycle, however much later, issues one, and the following
   visit of the main page issues no reload and clears prevNextClicked_.  A
   navigation attempted outside the debounce window while no browser
   exists restarts the window. *)
C33_LatchSetWithoutCommand ==
    (pc = "running" /\ (state_ = Pending \/ state_ = Open)
        /\ curMainIdx_ > 0 /\ ~prevNextClicked_)
        => \A req \in prevNextRequests :
              LET after == Outcome(req)
                  issued == browser_ /\ sinceNavigate > NavigateDebounceMs
              IN  /\ after.prevNextClicked_
                  /\ after.navCmd
                        = IF issued
                          THEN (IF req.kind = "prev" THEN "GoBack" ELSE "GoForward")
                          ELSE "none"
                  /\ after.sinceNavigate
                        = IF sinceNavigate > NavigateDebounceMs THEN 0 ELSE sinceNavigate
                  /\ ~issued
                        => \A ms \in {0} \cup NavigateTickSteps :
                              LET later == Begin(elapse(after, ms))
                              IN  /\ \A again \in prevNextRequests :
                                        LET second == handleHTTPRequest(later, again)
                                        IN  /\ second.navCmd = "none"
                                            /\ second.prevNextClicked_
                                            /\ second.sinceNavigate = later.sinceNavigate
                                  /\ preMainVisited_
                                        => LET visit == handleHTTPRequest(later, mainRequest)
                                           IN  /\ visit.response.body = "main"
                                               /\ visit.navCmd = "none"
                                               /\ ~visit.prevNextClicked_

(* C33 witness: the next endpoint was hit outside the debounce window on a
   session that has no browser yet: prevNextClicked_ is set, the window has
   restarted, no command was issued *)
C33_Witness ==
    /\ state_ = Pending
    /\ ~browser_
    /\ curMainIdx_ > 0
    /\ response = [status |-> 200, body |-> "next"]
    /\ prevNextClicked_
    /\ sinceNavigate = 0
    /\ "debounced" \notin effects
    /\ navCmd = "none"

(* C34: the download counter starts at 0 and only grows, one by one; the
   index a download gets in the ledger is the counter after its increment,
   so it is at least 1 and greater than every index issued before; it is
   not in the ledger when it is inserted, so the REQUIRE on the insertion
   holds; the ledger holds one file per index and the file of an index
   never changes; a request for index 0, and one for an index that has
   expired, is answered 400 by a session that accepts requests. *)
C34_DownloadIndexesNeverReissued ==
    /\ [] ( /\ ~requireFailed
            /\ pc = "constructed" => (curDownloadIdx_ = 0 /\ downloads_ = {})
            /\ \A d \in downloads_ : d[1] >= 1 /\ d[1] <= curDownloadIdx_
            /\ \A d, e \in downloads_ : d[1] = e[1] => d = e
            /\ (pc = "running" /\ (state_ = Pending \/ state_ = Open))
                  => \A req \in {r \in IssueRequests : r.kind = "download"} :
                        (req.downloadIdx = 0 \/ ~hasDownload(Cur, req.downloadIdx))
                            => /\ Outcome(req).response.status = 400
                               /\ Outcome(req).downloads_ = downloads_ )
    /\ [][ /\ curDownloadIdx_' \in {curDownloadIdx_, curDownloadIdx_ + 1}
           /\ \A e \in downloads_' :
                 \/ \E d \in downloads_ : d[1] = e[1] /\ d[2] = e[2]
                 \/ /\ e[1] = curDownloadIdx_ + 1
                    /\ curDownloadIdx_' = e[1]
                    /\ \A d \in downloads_ : d[1] < e[1] ]_vars

(* C34 witness: the first download has expired and the second and the
   third, of different files, are in the ledger under the indexes 2 and 3 *)
C34_Witness ==
    /\ curDownloadIdx_ = 3
    /\ {d[1] : d \in downloads_} = {2, 3}
    /\ \E d, e \in downloads_ : d[2] # e[2]
    /\ response = [status |-> 400, body |-> "Outdated download index"]

(* Image polls with imgIdx = 0, of every generation, immediate and held,
   with and without events *)
zeroPolls ==
    ImageRequests(0..MaxMainIdx, {0}, {<<1, 801, 600>>, <<0, 801, 600>>},
                  {<<0, <<>> >>, <<0, <<"E", "/">> >>})

(* C35: imgIdx is 0 after construction and never negative.  An image poll
   with imgIdx = 0 is rejected in every state of a running session: a
   Pending or Open session answers 400 and changes nothing but the
   security status refresh, a Closing or Closed one answers 503.  The same
   holds right after a main page visit or a close request has started a
   generation, which leaves imgIdx at 0: the first poll a generation
   accepts has imgIdx >= 1. *)
C35_ZeroImagePollRejected ==
    /\ curImgIdx_ >= 0
    /\ pc = "constructed" => curImgIdx_ = 0
    /\ (pc = "running" /\ (state_ = Closing \/ state_ = Closed))
          => \A req \in zeroPolls : Outcome(req).response.status = 503
    /\ (pc = "running" /\ (state_ = Pending \/ state_ = Open))
          => /\ \A req \in zeroPolls :
                   Outcome(req) = Respond(refreshed(Begin(Cur)), 400, "Outdated request")
             /\ \A start \in {mainRequest,
                               Req("GET", "close", curMainIdx_, 0, 0, 0, 0, 0, <<>>, 0)} :
                   LET started == Begin(Outcome(start))
                   IN  started.curMainIdx_ = curMainIdx_ + 1
                          => /\ started.curImgIdx_ = 0
                             /\ \A req \in zeroPolls :
                                   LET after == handleHTTPRequest(started, req)
                                   IN  /\ after.response.status = 400
                                       /\ after.curImgIdx_ = 0
                             /\ \A req \in imagePolls(FirstPollRequests) :
                                   handleHTTPRequest(started, req).response.status = 200
                                      => req.imgIdx >= 1

(* C35 witness: a close request has started the second generation, no
   poll of it has been accepted, and a poll has just been rejected *)
C35_Witness ==
    /\ state_ = Open
    /\ curMainIdx_ = 2
    /\ curImgIdx_ = 0
    /\ inactivityTimeoutShort_
    /\ response = [status |-> 400, body |-> "Outdated request"]

(* The batch in which every token parses *)
allParsing(events) == [i \in 1..Len(events) |-> IF events[i] = "/" THEN "/" ELSE "E"]

(* C36: on a session that accepts requests, an accepted poll handles a
   batch with tokens that do not parse exactly as it handles the batch of
   the same length in which every token parses, but for the log of the
   failure: the same tokens are handed to processEvent, each advancing the
   expectation by one, the tokens after a failed one included, and the
   expectation ends at max(e, s + n).  The failure is logged iff a token
   that does not parse is handed over.  The same batch sent again with the
   next imgIdx hands no token over: a failed token is not retried. *)
C36_UnparsedTokenConsumesNumber ==
    (pc = "running" /\ (state_ = Pending \/ state_ = Open)) =>
        \A req \in ParseRequests :
            (req.mainIdx = curMainIdx_ /\ req.imgIdx > curImgIdx_) =>
                LET after == Outcome(req)
                    valid == Outcome([req EXCEPT !.events = allParsing(@)])
                    n == tokenCount(req.events)
                    handed == {i \in 1..n : after.eventTrail[i][2]}
                    again == handleHTTPRequest(Begin(after),
                                               [req EXCEPT !.imgIdx = @ + 1])
                IN  /\ [after EXCEPT !.effects = @ \ {"couldNotParse"}] = valid
                    /\ after.curEventIdx_ = Max(curEventIdx_, req.startEventIdx + n)
                    /\ after.curEventIdx_
                          = Max(curEventIdx_, req.startEventIdx) + Cardinality(handed)
                    /\ "couldNotParse" \in after.effects
                          <=> \E i \in handed : req.events[2 * i - 1] = "X"
                    /\ again.response.status = 200
                    /\ again.dispatched = after.dispatched
                    /\ again.curEventIdx_ = after.curEventIdx_
                    /\ "couldNotParse" \notin again.effects

(* C36 witness: a batch whose first token did not parse was handled: both
   of its tokens were handed over and consumed their numbers *)
C36_Witness ==
    /\ "couldNotParse" \in effects
    /\ eventTrail = << <<0, TRUE>>, <<1, TRUE>> >>
    /\ dispatched = <<0, 1>>
    /\ curEventIdx_ = 2

====
